---------------------------- MODULE Spec2Model ----------------------------
(***************************************************************************)
(* Model of the constrained grid pathfinder of src/src/day17.rs            *)
(* (find_path, its callers part1 / part2 and the types they use), of the   *)
(* input parsing of src/src/utils.rs (ascii_lines, grid_like), of          *)
(* Interval<T> of src/src/range.rs, of Map::map_range of src/src/day5.rs,  *)
(* of the beam searches of src/src/day16.rs (follow_beams, part2 and       *)
(* part2_threaded), of the Registry of src/src/day15.rs, of the rolls of   *)
(* src/src/day14.rs, of the workflows of src/src/day19.rs and of the       *)
(* pulses of src/src/day20.rs.  Each program has its own variables and its *)
(* own specification; the variables of the programs a specification does   *)
(* not run keep their initial values.                                      *)
(*                                                                         *)
(* An Option<T> of the source is a sequence of length <= 1: None is <<>>   *)
(* and Some(v) is <<v>>.  The BinaryHeap of the source is a bag of search  *)
(* nodes; pop removes an element that is greatest under Ord for            *)
(* SearchNode, i.e. one whose cost + heuristic is least.                   *)
(***************************************************************************)
EXTENDS Integers, Sequences, FiniteSets, Bags, TLC

VARIABLES
    cells,      \* Grid.cells: row-major Vec<Cell>, each cell its cost
    width,      \* Grid.width
    height,     \* Grid.height
    part,       \* 0: find_path is called directly; 1, 2: through part1 / part2
    start,      \* find_path argument
    end,        \* find_path argument
    min_steps_in_direction,
    max_steps_in_direction,
    queue,      \* local BinaryHeap<SearchNode> of find_path
    visited,    \* local HashSet<(Pos, Direction, u32)> of find_path
    expanded,   \* history: the nodes whose key line 207 inserted into visited
    node,       \* the Option<SearchNode> bound by the last `queue.pop()`
    result,     \* the Option<u32> returned by find_path
    answer,     \* the u32 returned by part1 / part2
    pc,         \* position in the program
    input,      \* the &[u8] handed to parse / ascii_lines
    index,      \* LinesIterator.index of the iterator under test
    yielded,    \* what the calls of LinesIterator::next returned so far
    error,      \* the Err(..) on which parse panicked, if it did
    iv_type,    \* range.rs: the instantiation of Interval<T>, "u32" or "u64"
    iv_a,       \* an Interval<T>
    iv_b,       \* an Interval<T>
    iv_checks,  \* whether the build panics on arithmetic overflow
    iv_result,  \* what intersection and overlaps returned for iv_a and iv_b
    m_ranges,   \* day5.rs: Map.ranges, a Vec<MappedRange>
    m_source_range, \* the Range given to Map::map_range
    m_result,   \* the Vec<Range> that Map::map_range returned
    grid16,     \* day16.rs: the Grid that part2_threaded borrows to its threads
    threads,    \* the threads spawned so far, each with its locals
    main_pc,    \* position of the thread that runs part2_threaded
    joined,     \* how many of the threads have been joined
    best,       \* the greatest count that max() has seen so far
    threaded_result, \* the usize returned by part2_threaded
    boxes,      \* day15.rs: Registry.boxes, one Vec<Lens> per index 0..255
    last_step,  \* the Step given to the last Registry::apply_step
    applied,    \* how many steps have been applied
    dish,       \* day14.rs: the Grid given to roll and to part2
    target,     \* TARGET_ROLL_CYCLES of part2
    history,    \* local HashMap<Grid, usize> of part2, as a set of pairs
    rolled,     \* local `rolled` of part2, or what roll returned
    roll_i,     \* the `i` of the loop of part2
    remaining,  \* the roll cycles still to do after the repeated grid
    roll_dir,   \* the RollDirection given to roll
    dish_pc,    \* position in part2 or in the test of roll
    program,    \* day19.rs: the Program of the Input
    stack,      \* IteratePathsToAcceptance.stack
    accepted,   \* history: the Bounds that next() has returned, in order
    iter_total, \* local `total` of part2_iterator, or its panic
    part2_total, \* what part2 returned, or its panic
    flow_pc,    \* position in the test of part2 and part2_iterator
    driver,     \* day20.rs: the caller of pulse_button, a test or find_cycle
    memory,     \* Simulator.memory
    pulses,     \* local `queue` of simulate_one_branch
    counter,    \* local `counter` of simulate_one_branch
    pulsed_mixer, \* local `pulsed_mixer` of simulate_one_branch
    returned,   \* what the last pulse_button returned
    presses,    \* how many times pulse_button has returned
    cycle_counter, \* local `counter` of find_cycle
    cycle_result, \* what find_cycle returned
    sim_pc      \* position in pulse_button and its caller

\* the state of the programs other than find_path and its callers
parseVars == <<input, index, yielded, error>>

intervalVars == <<iv_type, iv_a, iv_b, iv_checks, iv_result>>

almanacVars == <<m_ranges, m_source_range, m_result>>

beamVars == <<grid16, threads, main_pc, joined, best, threaded_result>>

lensVars == <<boxes, last_step, applied>>

dishVars == <<dish, target, history, rolled, roll_i, remaining, roll_dir, dish_pc>>

\* the programs of day14, day15, day19 and day20
flowVars == <<program, stack, accepted, iter_total, part2_total, flow_pc>>

pulseVars == <<driver, memory, pulses, counter, pulsed_mixer, returned, presses,
               cycle_counter, cycle_result, sim_pc>>

extraVars == <<lensVars, dishVars, flowVars, pulseVars>>

\* the programs that work on no grid
pureVars == <<intervalVars, almanacVars, beamVars, extraVars>>

others == <<parseVars, pureVars>>

pathVars == <<cells, width, height, part, start, end, min_steps_in_direction,
              max_steps_in_direction, queue, visited, expanded, node, result, answer, pc>>

vars == <<cells, width, height, part, start, end, min_steps_in_direction,
          max_steps_in_direction, queue, visited, expanded, node, result, answer, pc,
          others>>

-----------------------------------------------------------------------------
(* Bounds of the model *)

MaxWidth == 3
MaxHeight == 2
MaxCost == 1
MaxStepsBound == 2
MaxUniform == 4
ExhaustiveTieCells == 12

-----------------------------------------------------------------------------
(* Option *)

None == <<>>

Some(v) == <<v>>

-----------------------------------------------------------------------------
(* The programs a specification does not run stay as they are constructed *)

\* no input has been read
NoParse == input = <<>> /\ index = 0 /\ yielded = <<>> /\ error = None

\* no interval has been made
NoInterval ==
    /\ iv_type = "u32" /\ iv_a = [start |-> 0, length |-> 0] /\ iv_b = iv_a
    /\ iv_checks = FALSE /\ iv_result = None

\* no Map has been made
NoAlmanac ==
    /\ m_ranges = <<>> /\ m_source_range = [start |-> 0, length |-> 0]
    /\ m_result = None

\* part2_threaded has not been called
NoBeams ==
    /\ grid16 = [cells |-> <<>>, width |-> 0, height |-> 0]
    /\ threads = <<>>
    /\ main_pc = "none"
    /\ joined = 0
    /\ best = None
    /\ threaded_result = None

\* no Registry has been made
NoLenses == boxes = <<>> /\ last_step = None /\ applied = 0

\* neither roll nor part2 of day14 has been called
NoDish ==
    /\ dish = [tiles |-> <<>>, width |-> 0, height |-> 0]
    /\ target = 0 /\ history = {} /\ rolled = None /\ roll_i = 0
    /\ remaining = 0 /\ roll_dir = None /\ dish_pc = "none"

NoFlows ==
    /\ program = [workflows |-> <<>>, entry_point |-> 0]
    /\ stack = <<>> /\ accepted = <<>> /\ iter_total = None /\ part2_total = None
    /\ flow_pc = "none"

NoPulses ==
    /\ driver = "none" /\ memory = <<>> /\ pulses = <<>>
    /\ counter = [low |-> 0, high |-> 0] /\ pulsed_mixer = None /\ returned = None
    /\ presses = 0 /\ cycle_counter = [low |-> 0, high |-> 0] /\ cycle_result = None
    /\ sim_pc = "none"

NoExtra == NoLenses /\ NoDish /\ NoFlows /\ NoPulses

NoPure == NoInterval /\ NoAlmanac /\ NoBeams /\ NoExtra

-----------------------------------------------------------------------------
(* Direction *)

Direction == {"Up", "Down", "Left", "Right"}

opposite(dir) ==
    CASE dir = "Up" -> "Down"
      [] dir = "Down" -> "Up"
      [] dir = "Left" -> "Right"
      [] dir = "Right" -> "Left"

-----------------------------------------------------------------------------
(* Pos *)

Pos(x, y) == [x |-> x, y |-> y]

abs_diff(a, b) == IF a >= b THEN a - b ELSE b - a

manhattan_distance(self, other) ==
    abs_diff(self.x, other.x) + abs_diff(self.y, other.y)

\* checked_sub(1) fails at 0; the result is an Option<Pos>
step(self, dir) ==
    CASE dir = "Up" -> IF self.y = 0 THEN None ELSE Some(Pos(self.x, self.y - 1))
      [] dir = "Down" -> Some(Pos(self.x, self.y + 1))
      [] dir = "Left" -> IF self.x = 0 THEN None ELSE Some(Pos(self.x - 1, self.y))
      [] dir = "Right" -> Some(Pos(self.x + 1, self.y))

-----------------------------------------------------------------------------
(* Grid *)

contains(pos) == pos.x < width /\ pos.y < height

\* get with the row stride off by one
get_WrongStride(pos) == cells[pos.y * (width - 1) + pos.x + 1]

get(pos) == cells[pos.y * width + pos.x + 1]

\* the (Direction, Pos, Cell) triples of the in-grid steps from pos
neighbors(pos) ==
    { [direction |-> dir, pos |-> step(pos, dir)[1], cell |-> get(step(pos, dir)[1])] :
        dir \in { d \in Direction : step(pos, d) # None /\ contains(step(pos, d)[1]) } }

-----------------------------------------------------------------------------
(* SearchNode *)

SearchNode(pos, cost, heuristic, direction, steps) ==
    [pos |-> pos, cost |-> cost, heuristic |-> heuristic,
     direction |-> direction, steps_in_direction |-> steps]

SetMin(S) == CHOOSE m \in S : \A k \in S : m <= k

\* the comparison without .reverse(): the heap pops the dearest node first
Priority_NotReversed(n) == 0 - (n.cost + n.heuristic)

\* Ord for SearchNode compares cost + heuristic, reversed
Priority(n) == n.cost + n.heuristic

\* the nodes that are greatest under Ord: those BinaryHeap::pop may return
Greatest(q) ==
    LET least == SetMin({ Priority(n) : n \in BagToSet(q) })
    IN { n \in BagToSet(q) : Priority(n) = least }

\* The heap's order among equal elements is unspecified: every order is
\* explored on grids of at most ExhaustiveTieCells cells, one on larger grids.
PopChoices(q) ==
    IF width * height <= ExhaustiveTieCells
    THEN Greatest(q)
    ELSE { CHOOSE n \in Greatest(q) : TRUE }

-----------------------------------------------------------------------------
(* find_path *)

eval_heuristic(pos) == manhattan_distance(pos, end)

\* SeedNodes with the minimum-run test of a turn applied to the first move
SeedNodes_MinCheck ==
    { SearchNode(nb.pos, nb.cell, eval_heuristic(nb.pos), nb.direction, 1) :
        nb \in { b \in neighbors(start) : 1 >= min_steps_in_direction } }

\* lines 196-200: one node per neighbour of start, steps_in_direction = 1
SeedNodes ==
    { SearchNode(nb.pos, nb.cell, eval_heuristic(nb.pos), nb.direction, 1) :
        nb \in neighbors(start) }

\* Successors with the test against max_steps_in_direction left out
Successors_NoMaxCheck(n) ==
    { SearchNode(nb.pos, n.cost + nb.cell, eval_heuristic(nb.pos), nb.direction,
                 IF n.direction = nb.direction THEN n.steps_in_direction + 1 ELSE 1) :
        nb \in { b \in neighbors(n.pos) :
                   /\ n.direction # opposite(b.direction)
                   /\ IF n.direction = b.direction
                      THEN TRUE
                      ELSE n.steps_in_direction >= min_steps_in_direction } }

\* Successors with the test against min_steps_in_direction left out
Successors_NoMinCheck(n) ==
    { SearchNode(nb.pos, n.cost + nb.cell, eval_heuristic(nb.pos), nb.direction,
                 IF n.direction = nb.direction THEN n.steps_in_direction + 1 ELSE 1) :
        nb \in { b \in neighbors(n.pos) :
                   /\ n.direction # opposite(b.direction)
                   /\ IF n.direction = b.direction
                      THEN ~(n.steps_in_direction >= max_steps_in_direction)
                      ELSE TRUE } }

\* Successors with the test for the opposite direction left out
Successors_NoOppositeCheck(n) ==
    { SearchNode(nb.pos, n.cost + nb.cell, eval_heuristic(nb.pos), nb.direction,
                 IF n.direction = nb.direction THEN n.steps_in_direction + 1 ELSE 1) :
        nb \in { b \in neighbors(n.pos) :
                   IF n.direction = b.direction
                   THEN ~(n.steps_in_direction >= max_steps_in_direction)
                   ELSE n.steps_in_direction >= min_steps_in_direction } }

\* Successors with the run allowed to reach max_steps_in_direction + 1
Successors_OffByOne(n) ==
    { SearchNode(nb.pos, n.cost + nb.cell, eval_heuristic(nb.pos), nb.direction,
                 IF n.direction = nb.direction THEN n.steps_in_direction + 1 ELSE 1) :
        nb \in { b \in neighbors(n.pos) :
                   /\ n.direction # opposite(b.direction)
                   /\ IF n.direction = b.direction
                      THEN ~(n.steps_in_direction > max_steps_in_direction)
                      ELSE n.steps_in_direction >= min_steps_in_direction } }

\* lines 211-233: the successors pushed when n is expanded
Successors(n) ==
    { SearchNode(nb.pos, n.cost + nb.cell, eval_heuristic(nb.pos), nb.direction,
                 IF n.direction = nb.direction THEN n.steps_in_direction + 1 ELSE 1) :
        nb \in { b \in neighbors(n.pos) :
                   /\ n.direction # opposite(b.direction)
                   /\ IF n.direction = b.direction
                      THEN ~(n.steps_in_direction >= max_steps_in_direction)
                      ELSE n.steps_in_direction >= min_steps_in_direction } }

Key(n) == <<n.pos, n.direction, n.steps_in_direction>>

\* lines 189-200
Seed ==
    /\ pc = "find_path"
    /\ queue' = SetToBag(SeedNodes)
    /\ visited' = {}
    /\ expanded' = {}
    /\ pc' = "loop"
    /\ UNCHANGED <<cells, width, height, part, start, end, min_steps_in_direction,
                   max_steps_in_direction, node, result, answer, others>>

\* Loop with a node at end returned only when its run has reached
\* min_steps_in_direction
Loop_EndNeedsMinRun ==
    /\ pc = "loop"
    /\ IF queue = EmptyBag
       THEN /\ node' = None
            /\ result' = None
            /\ pc' = "returned"
            /\ UNCHANGED <<queue, visited, expanded>>
       ELSE \E n \in PopChoices(queue) :
              LET rest == queue (-) SetToBag({n}) IN
              /\ node' = Some(n)
              /\ IF n.pos = end /\ n.steps_in_direction >= min_steps_in_direction
                 THEN /\ result' = Some(n.cost)
                      /\ pc' = "returned"
                      /\ queue' = rest
                      /\ UNCHANGED <<visited, expanded>>
                 ELSE IF Key(n) \in visited
                 THEN /\ queue' = rest
                      /\ UNCHANGED <<visited, expanded, result, pc>>
                 ELSE /\ visited' = visited \cup {Key(n)}
                      /\ expanded' = expanded \cup {n}
                      /\ queue' = rest (+) SetToBag(Successors(n))
                      /\ UNCHANGED <<result, pc>>
    /\ UNCHANGED <<cells, width, height, part, start, end, min_steps_in_direction,
                   max_steps_in_direction, answer, others>>

Loop_NoVisitedInsert ==
    /\ pc = "loop"
    /\ IF queue = EmptyBag
       THEN /\ node' = None
            /\ result' = None
            /\ pc' = "returned"
            /\ UNCHANGED <<queue, visited, expanded>>
       ELSE \E n \in PopChoices(queue) :
              LET rest == queue (-) SetToBag({n}) IN
              /\ node' = Some(n)
              /\ IF n.pos = end
                 THEN /\ result' = Some(n.cost)
                      /\ pc' = "returned"
                      /\ queue' = rest
                      /\ UNCHANGED <<visited, expanded>>
                 ELSE /\ queue' = rest (+) SetToBag(Successors(n))
                      /\ UNCHANGED <<visited, expanded, result, pc>>
    /\ UNCHANGED <<cells, width, height, part, start, end, min_steps_in_direction,
                   max_steps_in_direction, answer, others>>

\* Loop without the `continue` of line 208: a node whose key is already in
\* visited is expanded again
Loop_ExpandsVisited ==
    /\ pc = "loop"
    /\ IF queue = EmptyBag
       THEN /\ node' = None
            /\ result' = None
            /\ pc' = "returned"
            /\ UNCHANGED <<queue, visited, expanded>>
       ELSE \E n \in PopChoices(queue) :
              LET rest == queue (-) SetToBag({n}) IN
              /\ node' = Some(n)
              /\ IF n.pos = end
                 THEN /\ result' = Some(n.cost)
                      /\ pc' = "returned"
                      /\ queue' = rest
                      /\ UNCHANGED <<visited, expanded>>
                 ELSE /\ visited' = visited \cup {Key(n)}
                      /\ expanded' = expanded \cup {n}
                      /\ queue' = rest (+) SetToBag(Successors(n))
                      /\ UNCHANGED <<result, pc>>
    /\ UNCHANGED <<cells, width, height, part, start, end, min_steps_in_direction,
                   max_steps_in_direction, answer, others>>

\* lines 202-235: one iteration of `while let Some(node) = queue.pop()`
Loop ==
    /\ pc = "loop"
    /\ IF queue = EmptyBag
       THEN /\ node' = None
            /\ result' = None
            /\ pc' = "returned"
            /\ UNCHANGED <<queue, visited, expanded>>
       ELSE \E n \in PopChoices(queue) :
              LET rest == queue (-) SetToBag({n}) IN
              /\ node' = Some(n)
              /\ IF n.pos = end
                 THEN /\ result' = Some(n.cost)
                      /\ pc' = "returned"
                      /\ queue' = rest
                      /\ UNCHANGED <<visited, expanded>>
                 ELSE IF Key(n) \in visited
                 THEN /\ queue' = rest
                      /\ UNCHANGED <<visited, expanded, result, pc>>
                 ELSE /\ visited' = visited \cup {Key(n)}
                      /\ expanded' = expanded \cup {n}
                      /\ queue' = rest (+) SetToBag(Successors(n))
                      /\ UNCHANGED <<result, pc>>
    /\ UNCHANGED <<cells, width, height, part, start, end, min_steps_in_direction,
                   max_steps_in_direction, answer, others>>

-----------------------------------------------------------------------------
(* Parsing: LinesIterator and grid_like of src/src/utils.rs, Cell::try_from *)
(* and parse of src/src/day17.rs.  A byte is its ASCII code; a slice is a   *)
(* sequence of bytes; a Result is a record whose ok field tells Ok from Err *)

NL == 10            \* b'\n'
Byte0 == 48         \* b'0'
Byte9 == 57         \* b'9'

MaxInputLen == 5
MaxCalls == 5

Ok(v) == [ok |-> TRUE, value |-> v]
Err(e) == [ok |-> FALSE, value |-> e]

InvalidCharacter(c) == [InvalidCharacter |-> c]

\* &s[from .. to]
SubSlice(s, from, to) == SubSeq(s, from + 1, to)

\* s.iter().position(|&c| c == b)
position(s, b) ==
    IF \E i \in 1 .. Len(s) : s[i] = b
    THEN Some(SetMin({ i \in 1 .. Len(s) : s[i] = b }) - 1)
    ELSE None

LinesIterator_next_Restarts(slice, idx) ==
    IF idx < Len(slice)
    THEN LET newline == position(SubSlice(slice, idx, Len(slice)), NL) IN
         IF newline # None
         THEN [item |-> Some(SubSlice(slice, idx, idx + newline[1])),
               index |-> idx + newline[1] + 1]
         ELSE [item |-> Some(SubSlice(slice, idx, Len(slice))), index |-> Len(slice)]
    ELSE [item |-> None, index |-> 0]

\* LinesIterator::next on a LinesIterator { slice, index: idx }: the item it
\* returns and the index it leaves
LinesIterator_next(slice, idx) ==
    IF idx < Len(slice)
    THEN LET start_ == idx
             rest == SubSlice(slice, start_, Len(slice))
             newline == position(rest, NL)
         IN IF newline # None
            THEN [item |-> Some(SubSlice(slice, start_, start_ + newline[1])),
                  index |-> idx + newline[1] + 1]
            ELSE [item |-> Some(SubSlice(slice, start_, Len(slice))),
                  index |-> Len(slice)]
    ELSE [item |-> None, index |-> idx]

RECURSIVE collect(_, _)
\* the items of a LinesIterator, from index idx until its first None
collect(slice, idx) ==
    LET r == LinesIterator_next(slice, idx) IN
    IF r.item = None THEN <<>> ELSE <<r.item[1]>> \o collect(slice, r.index)

\* self.ascii_lines(), drained
ascii_lines(slice) == collect(slice, 0)

RECURSIVE flatten(_)
flatten(seqs) == IF seqs = <<>> THEN <<>> ELSE Head(seqs) \o flatten(Tail(seqs))

try_from_AcceptsColon(value) ==
    IF value \in Byte0 .. Byte9 + 1 THEN Ok(value - Byte0)
    ELSE Err(InvalidCharacter(value))

\* Cell::try_from(value: u8)
try_from(value) ==
    IF value \in Byte0 .. Byte9 THEN Ok(value - Byte0)
    ELSE Err(InvalidCharacter(value))

\* collect::<Result<Vec<_>, _>>() stops at the first Err
grid_like(slice) ==
    LET lines == ascii_lines(slice)
        bytes == flatten(lines)
        bad == { i \in 1 .. Len(bytes) : ~try_from(bytes[i]).ok }
    IN IF bad # {}
       THEN Err(try_from(bytes[SetMin(bad)]).value)
       ELSE Ok([cells |-> [i \in 1 .. Len(bytes) |-> try_from(bytes[i]).value],
                width |-> IF lines = <<>> THEN 0 ELSE Len(lines[1]),
                height |-> Len(lines)])

\* parse: input.grid_like().unwrap().into_grid()
Parse ==
    /\ pc = "parse"
    /\ LET r == grid_like(input) IN
       IF r.ok
       THEN /\ cells' = r.value.cells
            /\ width' = r.value.width
            /\ height' = r.value.height
            /\ pc' = "parsed"
            /\ UNCHANGED error
       ELSE /\ error' = Some(r.value)
            /\ pc' = "panicked"
            /\ UNCHANGED <<cells, width, height>>
    /\ UNCHANGED <<part, start, end, min_steps_in_direction, max_steps_in_direction,
                   queue, visited, expanded, node, result, answer, input, index, yielded,
                   pureVars>>

\* one call of next() on the iterator input.ascii_lines()
AsciiLinesNext ==
    /\ pc = "parse"
    /\ Len(yielded) < MaxCalls
    /\ LET r == LinesIterator_next(input, index) IN
       /\ yielded' = Append(yielded, r.item)
       /\ index' = r.index
    /\ UNCHANGED <<cells, width, height, part, start, end, min_steps_in_direction,
                   max_steps_in_direction, queue, visited, expanded, node, result, answer, pc,
                   input, error, pureVars>>

\* the bytes inputs are made of: a newline, two digits, and the bytes just
\* before '0' and just after '9'
InputBytes == {NL, Byte0, Byte0 + 1, Byte0 - 1, Byte9 + 1}

Inputs == UNION { [1 .. n -> InputBytes] : n \in 0 .. MaxInputLen }

\* no Grid has been built and find_path has not been called
NoGrid ==
    /\ cells = <<>> /\ width = 0 /\ height = 0
    /\ start = Pos(0, 0) /\ end = Pos(0, 0)
    /\ min_steps_in_direction = 0 /\ max_steps_in_direction = 0
    /\ queue = EmptyBag /\ visited = {} /\ expanded = {} /\ node = None /\ result = None
    /\ answer = 0

InitParse ==
    /\ input \in Inputs
    /\ index = 0
    /\ yielded = <<>>
    /\ error = None
    /\ part = 0
    /\ NoGrid
    /\ pc = "parse"
    /\ NoPure

NextParse == Parse \/ AsciiLinesNext

SpecParse == InitParse /\ [][NextParse]_vars

-----------------------------------------------------------------------------
(* Direct calls of find_path on every small grid *)

Costs == 0 .. MaxCost

\* the positions of the grid, and one position beyond its last column and one
\* beyond its last row
Positions(w, h) ==
    { Pos(x, y) : x \in 0 .. w - 1, y \in 0 .. h - 1 } \cup {Pos(w, 0), Pos(0, h)}

Init ==
    /\ width \in 1 .. MaxWidth
    /\ height \in 1 .. MaxHeight
    /\ cells \in [1 .. width * height -> Costs]
    /\ part = 0
    /\ start \in Positions(width, height)
    /\ end \in Positions(width, height)
    /\ min_steps_in_direction \in 0 .. MaxStepsBound
    /\ max_steps_in_direction \in 0 .. MaxStepsBound
    /\ queue = EmptyBag
    /\ visited = {}
    /\ expanded = {}
    /\ node = None
    /\ result = None
    /\ answer = 0
    /\ pc = "find_path"
    /\ NoParse
    /\ NoPure

Next == Seed \/ Loop

Spec == Init /\ [][Next]_vars

-----------------------------------------------------------------------------
(* Valid paths, as the properties below speak of them.                     *)
(* A path is a sequence of moves from start; its state after a move is the *)
(* cell reached, the direction of the move and the number of consecutive   *)
(* moves made in that direction.  The first move is free; a later move may *)
(* not reverse, may continue only while the run stays <= mx, and may turn  *)
(* only when the run so far is >= mn.                                      *)

InGrid(p) == p.x \in 0 .. width - 1 /\ p.y \in 0 .. height - 1

Reverse(d) ==
    CASE d = "Up" -> "Down" [] d = "Down" -> "Up"
      [] d = "Left" -> "Right" [] d = "Right" -> "Left"

\* the cell a move in direction d into p comes from
Back(p, d) ==
    CASE d = "Up" -> [x |-> p.x, y |-> p.y + 1]
      [] d = "Down" -> [x |-> p.x, y |-> p.y - 1]
      [] d = "Left" -> [x |-> p.x + 1, y |-> p.y]
      [] d = "Right" -> [x |-> p.x - 1, y |-> p.y]

CostOf(p) == cells[p.y * width + p.x + 1]

PathStates(mx) ==
    { [pos |-> [x |-> x, y |-> y], dir |-> d, run |-> r] :
        x \in 0 .. width - 1, y \in 0 .. height - 1, d \in Direction, r \in 1 .. mx }

\* the states a valid path may be in just before it enters state s
PathPreds(s, mn, mx) ==
    IF ~InGrid(Back(s.pos, s.dir)) THEN {}
    ELSE IF s.run > 1
    THEN { [pos |-> Back(s.pos, s.dir), dir |-> s.dir, run |-> s.run - 1] }
    ELSE { [pos |-> Back(s.pos, s.dir), dir |-> d, run |-> r] :
             d \in Direction \ {s.dir, Reverse(s.dir)},
             r \in { k \in 1 .. mx : k >= mn } }

\* more than any path that repeats no state can cost
Infinite(mx) == 1 + 9 * 4 * width * height * (mx + 1)

RECURSIVE Relax(_, _, _)
Relax(D, mn, mx) ==
    LET E == [s \in PathStates(mx) |->
                SetMin({D[s]} \cup { D[t] + CostOf(s.pos) : t \in PathPreds(s, mn, mx) }) ]
    IN IF E = D THEN D ELSE Relax(E, mn, mx)

\* the least cost of a valid path into each state
PathCost(mn, mx) ==
    Relax([s \in PathStates(mx) |->
             IF s.run = 1 /\ Back(s.pos, s.dir) = start
             THEN CostOf(s.pos) ELSE Infinite(mx)], mn, mx)

\* None when no valid path of at least one move leads from start to end,
\* else Some of the least cost of such a path
BestPath(mn, mx) ==
    LET D == PathCost(mn, mx)
        arrivals == { D[s] : s \in { t \in PathStates(mx) : t.pos = end } }
    IN IF arrivals = {} \/ SetMin(arrivals) >= Infinite(mx)
       THEN None ELSE Some(SetMin(arrivals))

ValidInput ==
    /\ InGrid(start)
    /\ InGrid(end)
    /\ 1 <= min_steps_in_direction
    /\ min_steps_in_direction <= max_steps_in_direction

\* the nodes pushed on the queue by the step
Pushed == BagToSet(queue' (-) queue)

Returned == pc = "returned"

-----------------------------------------------------------------------------
(* Properties of find_path, checked under Spec *)

min_steps == min_steps_in_direction

max_steps == max_steps_in_direction

\* C1: for in-bounds start # end and 1 <= min <= max such that a valid path
\* exists, find_path returns Some of the least cost of a valid path from start
\* to end (cell costs 0..MaxCost, the start cell's own cost not counted).
C1_ReturnsMinimumCost ==
    (Returned /\ ValidInput /\ start # end /\ BestPath(min_steps, max_steps) # None)
        => result = BestPath(min_steps, max_steps)

\* C4: when start = end, find_path returns cost 0.
C4_StartIsEndCostsZero ==
    (Returned /\ ValidInput /\ start = end) => result = Some(0)

\* C5: find_path returns None exactly when no valid path (of at least one
\* move) leads from start to end; when one exists the result is Some.
C5_NoneIffNoValidPath ==
    (Returned /\ ValidInput)
        => ((result = None) <=> (BestPath(min_steps, max_steps) = None))

\* the search ran until the queue was empty and end was never reached
C5_Witness ==
    /\ Returned /\ ValidInput /\ start # end
    /\ visited # {} /\ queue = EmptyBag /\ result = None
    /\ BestPath(min_steps, max_steps) = None

\* C6: for max >= 1 every node pushed on the queue has a run-length in
\* 1 .. max, and a successor that continues in its parent's direction is
\* pushed only when the parent's run-length is < max, with that run-length + 1.
C6_RunLengthWithinMax ==
    [][ max_steps >= 1 =>
          \A m \in Pushed :
            /\ m.steps_in_direction \in 1 .. max_steps
            /\ (node' # None /\ pc = "loop" /\ m.direction = node'[1].direction)
                 => /\ node'[1].steps_in_direction < max_steps
                    /\ m.steps_in_direction = node'[1].steps_in_direction + 1 ]_vars

\* a node whose run has reached max was expanded where the next cell ahead is
\* in the grid: the straight successor was not pushed, a turn was
C6_Witness ==
    /\ ValidInput /\ start # end /\ node # None /\ pc = "loop"
    /\ node[1].steps_in_direction = max_steps
    /\ InGrid(Back(node[1].pos, Reverse(node[1].direction)))
    /\ \E m \in BagToSet(queue) :
         /\ Back(m.pos, m.direction) = node[1].pos
         /\ m.direction # node[1].direction
         /\ m.steps_in_direction = 1
         /\ m.cost = node[1].cost + CostOf(m.pos)

\* C7: a successor that turns away from its parent's direction is pushed only
\* when the parent's run-length is >= min, and carries run-length 1; a cost
\* returned by find_path is never below the least cost of a valid path.
C7_TurnOnlyAfterMin ==
    [][ (pc = "loop" /\ node' # None) =>
          /\ \A m \in Pushed :
               m.direction # node'[1].direction
                 => /\ node'[1].steps_in_direction >= min_steps
                    /\ m.steps_in_direction = 1
          /\ (pc' = "returned" /\ result' # None /\ ValidInput)
               => /\ BestPath(min_steps, max_steps) # None
                  /\ result'[1] >= BestPath(min_steps, max_steps)[1] ]_vars

\* a path that turns before min steps would be cheaper, and its cost is not
\* what find_path returned
C7_Witness ==
    /\ Returned /\ ValidInput /\ min_steps >= 2 /\ result # None
    /\ start # end /\ result = BestPath(min_steps, max_steps)
    /\ BestPath(1, max_steps) # None
    /\ BestPath(1, max_steps)[1] < result[1]

\* C8: no node is pushed whose direction is the opposite of its parent's
\* direction, nor one that is back in the cell its parent came from.
C8_NoReversal ==
    [][ (pc = "loop" /\ node' # None) =>
          \A m \in Pushed :
            /\ m.direction # Reverse(node'[1].direction)
            /\ m.pos # Back(node'[1].pos, node'[1].direction) ]_vars

\* a node that was free to turn (run >= min) was expanded with the cell it
\* came from in the grid: successors were pushed, none back into that cell
C8_Witness ==
    /\ node # None /\ pc = "loop" /\ ValidInput /\ start # end
    /\ node[1].steps_in_direction >= min_steps
    /\ InGrid(Back(node[1].pos, node[1].direction))
    /\ \E m \in BagToSet(queue) :
         /\ Back(m.pos, m.direction) = node[1].pos
         /\ m.direction # node[1].direction
         /\ m.cost = node[1].cost + CostOf(m.pos)

\* C9: with min > max or min = 0 (start # end, both in the grid) the call
\* fails before the search begins: no node is enqueued or expanded and nothing
\* is returned.
C9_InvalidConfigurationRejected ==
    (InGrid(start) /\ InGrid(end) /\ start # end
        /\ (min_steps > max_steps \/ min_steps = 0))
        => (queue = EmptyBag /\ visited = {} /\ ~Returned)

\* C10: with start or end outside the grid (and 1 <= min <= max) the call
\* fails before the search begins: the search loop never runs and nothing is
\* returned.
C10_OutOfBoundsRejected ==
    (1 <= min_steps /\ min_steps <= max_steps /\ (~InGrid(start) \/ ~InGrid(end)))
        => (node = None /\ ~Returned)

-----------------------------------------------------------------------------
(* part1 and part2 on the grids of the tests *)

Part1MinSteps == 1
Part1MaxSteps == 3
Part2MinSteps == 4
Part2MaxSteps == 10

\* lines 243-275: part1 / part2 up to the call of find_path
PartCall ==
    /\ pc = "part"
    /\ start' = Pos(0, 0)
    /\ end' = Pos(width - 1, height - 1)
    /\ min_steps_in_direction' = IF part = 1 THEN Part1MinSteps ELSE Part2MinSteps
    /\ max_steps_in_direction' = IF part = 1 THEN Part1MaxSteps ELSE Part2MaxSteps
    /\ pc' = "find_path"
    /\ UNCHANGED <<cells, width, height, part, queue, visited, expanded, node, result, answer,
                   others>>

\* lines 257, 274: .unwrap() of the result of find_path
Unwrap ==
    /\ pc = "returned"
    /\ part # 0
    /\ IF result = None
       THEN pc' = "panicked" /\ UNCHANGED answer
       ELSE pc' = "done" /\ answer' = result[1]
    /\ UNCHANGED <<cells, width, height, part, start, end, min_steps_in_direction,
                   max_steps_in_direction, queue, visited, expanded, node, result, others>>

\* the grid of example_tests, lines 302-314
ExampleCells ==
    <<2,4,1,3,4,3,2,3,1,1,3,2,3>> \o
    <<3,2,1,5,4,5,3,5,3,5,6,2,3>> \o
    <<3,2,5,5,2,4,5,6,5,4,2,5,4>> \o
    <<3,4,4,6,5,8,5,8,4,5,4,5,2>> \o
    <<4,5,4,6,6,5,7,8,6,7,5,3,6>> \o
    <<1,4,3,8,5,9,8,7,9,8,4,5,4>> \o
    <<4,4,5,7,8,7,6,9,8,7,7,6,6>> \o
    <<3,6,3,7,8,7,7,9,7,9,6,5,3>> \o
    <<4,6,5,4,9,6,7,9,8,6,8,8,7>> \o
    <<4,5,6,4,6,7,9,9,8,6,4,5,3>> \o
    <<1,2,2,4,6,8,6,8,6,5,5,6,3>> \o
    <<2,5,4,6,5,4,8,8,8,7,7,3,5>> \o
    <<4,3,2,2,6,7,4,6,5,5,5,3,3>>

ExampleSide == 13

\* the grid of tests::uniform_cost (line 283) for side n: every cell costs 1
UniformCells(n) == [i \in 1 .. n * n |-> 1]

RECURSIVE repeat(_, _)
\* [u8]::repeat(n)
repeat(s, n) == IF n = 0 THEN <<>> ELSE s \o repeat(s, n - 1)

ForcedTurnRepeats == 4

\* the input of tests::forced_turn (line 290): b"911111\n119991".repeat(4)
ForcedTurnInput ==
    repeat(<<57, 49, 49, 49, 49, 49, NL, 49, 49, 57, 57, 57, 49>>, ForcedTurnRepeats)

ForcedTurnMinSteps == 1
ForcedTurnMaxSteps == 3

\* tests::forced_turn, lines 292-295: from the parsed grid to the call of
\* find_path; `grid.width - 1` panics on a grid without columns or rows
ForcedTurnCall ==
    /\ pc = "parsed"
    /\ part = 0
    /\ IF width = 0 \/ height = 0
       THEN /\ pc' = "panicked"
            /\ UNCHANGED <<start, end, min_steps_in_direction, max_steps_in_direction>>
       ELSE /\ start' = Pos(0, 0)
            /\ end' = Pos(width - 1, height - 1)
            /\ min_steps_in_direction' = ForcedTurnMinSteps
            /\ max_steps_in_direction' = ForcedTurnMaxSteps
            /\ pc' = "find_path"
    /\ UNCHANGED <<cells, width, height, part, queue, visited, expanded, node, result, answer,
                   others>>

InitPart ==
    /\ \/ /\ width = ExampleSide
          /\ height = width
          /\ cells = ExampleCells
          /\ part \in {1, 2}
          /\ NoParse
          /\ pc = "part"
       \/ /\ width \in 1 .. MaxUniform
          /\ height = width
          /\ cells = UniformCells(width)
          /\ part \in {1, 2}
          /\ NoParse
          /\ pc = "part"
       \/ /\ input = ForcedTurnInput
          /\ index = 0 /\ yielded = <<>> /\ error = None
          /\ width = 0 /\ height = 0 /\ cells = <<>>
          /\ part = 0
          /\ pc = "parse"
    /\ start = Pos(0, 0)
    /\ end = Pos(0, 0)
    /\ min_steps_in_direction = 0
    /\ max_steps_in_direction = 0
    /\ queue = EmptyBag
    /\ visited = {}
    /\ expanded = {}
    /\ node = None
    /\ result = None
    /\ answer = 0
    /\ NoPure

NextPart == Parse \/ ForcedTurnCall \/ PartCall \/ Seed \/ Loop \/ Unwrap

SpecPart == InitPart /\ [][NextPart]_vars

IsExample == width = ExampleSide /\ cells = ExampleCells

IsUniform == cells = UniformCells(width)

Finished == pc \in {"done", "panicked"}

\* C2: on the 13x13 example grid, from the top-left to the bottom-right cell,
\* part1 (min 1, max 3) returns 102 and part2 (min 4, max 10) returns 94.
C2_ExampleAnswers ==
    (IsExample /\ Finished)
        => /\ pc = "done"
           /\ part = 1 => answer = 102
           /\ part = 2 => answer = 94

\* part2 has run to its end on the example grid
C2_Witness ==
    /\ IsExample /\ pc = "done" /\ part = 2
    /\ start = Pos(0, 0) /\ end = Pos(12, 12)
    /\ min_steps_in_direction = 4 /\ max_steps_in_direction = 10
    /\ result = Some(94)

\* C3: for every n >= 1, part1 on the n x n grid whose cells all cost 1
\* returns the Manhattan distance between the corners, 2 * (n - 1).
C3_UniformManhattan ==
    (IsUniform /\ part = 1 /\ Finished)
        => (pc = "done" /\ answer = 2 * (width - 1))

-----------------------------------------------------------------------------
(* Properties of parsing (SpecParse) *)

\* C11: parse never yields a Grid whose width or height is 0 or whose number
\* of cells differs from width * height: empty input and rows of unequal
\* length are rejected.
C11_InvalidGridRejected ==
    pc = "parsed" => (width > 0 /\ height > 0 /\ Len(cells) = width * height)

\* the positions of input that hold a byte that is neither a digit nor the
\* line separator
InvalidAt == { i \in 1 .. Len(input) : input[i] # NL /\ input[i] \notin Byte0 .. Byte9 }

\* C12: when a row of the input holds a byte outside '0'..'9', parse builds no
\* Grid: it fails on InvalidCharacter carrying the (first such) byte, and
\* nothing is searched.
C12_InvalidCharacterIsFatal ==
    InvalidAt # {}
        => /\ pc \in {"parse", "panicked"}
           /\ NoGrid
           /\ pc = "panicked" => error = Some(InvalidCharacter(input[SetMin(InvalidAt)]))

\* parse has failed on an input that holds digits and two different bytes
\* that are not digits
C12_Witness ==
    /\ pc = "panicked"
    /\ Cardinality({ input[i] : i \in InvalidAt }) = 2
    /\ \E i \in 1 .. Len(input) : input[i] \in Byte0 .. Byte9
    /\ error = Some(InvalidCharacter(input[SetMin(InvalidAt)]))

\* the length of the first row of input
FirstRowLen ==
    IF \E i \in 1 .. Len(input) : input[i] = NL
    THEN SetMin({ i \in 1 .. Len(input) : input[i] = NL }) - 1
    ELSE Len(input)

\* input is rows of digits, all as long as the first, separated by newlines,
\* the last row with or without one
IsDigitRows ==
    /\ FirstRowLen >= 1
    /\ \A i \in 1 .. Len(input) :
         IF i % (FirstRowLen + 1) = 0 THEN input[i] = NL ELSE input[i] \in Byte0 .. Byte9
    /\ Len(input) % (FirstRowLen + 1) \in {0, FirstRowLen}

\* C18: rows of digits parse to one grid row per line, each cell the value of
\* its digit, width the row length and height the number of lines; the grid
\* is the same with and without a newline after the last line; and the lines
\* iterator returns lines without their newline and, once it has returned
\* None, returns None again.
C18_LinesAndGrid ==
    /\ (pc = "parsed" /\ IsDigitRows)
         => /\ width = FirstRowLen
            /\ height = (Len(input) + 1) \div (FirstRowLen + 1)
            /\ Len(cells) = width * height
            /\ \A x \in 0 .. width - 1, y \in 0 .. height - 1 :
                 get(Pos(x, y)) = input[y * (FirstRowLen + 1) + x + 1] - Byte0
    /\ (pc = "parsed" /\ input # <<>> /\ input[Len(input)] # NL)
         => Ok([cells |-> cells, width |-> width, height |-> height])
              = grid_like(input \o <<NL>>)
    /\ \A i \in 1 .. Len(yielded) :
         /\ yielded[i] # None => \A k \in 1 .. Len(yielded[i][1]) : yielded[i][1][k] # NL
         /\ yielded[i] = None => \A j \in i .. Len(yielded) : yielded[j] = None

\* two rows of two digits have been parsed, and the iterator was called
\* twice more after its two lines
C18_Witness ==
    /\ pc = "parsed" /\ IsDigitRows
    /\ width = 2 /\ height = 2 /\ cells = <<0, 1, 1, 0>>
    /\ Len(yielded) = 4
    /\ yielded[2] # None /\ yielded[3] = None /\ yielded[4] = None

\* C16: the grid parsed from b"911111\n119991" repeated 4 times, searched from
\* (0,0) to (width-1, height-1) with min 1 and max 3, yields Some(17).
C16_ForcedTurn ==
    (input = ForcedTurnInput /\ pc \in {"returned", "panicked"})
        => (pc = "returned" /\ result = Some(17))

\* the search of tests::forced_turn has returned, on the grid of width 6 and
\* height 5 that the 5 lines of the input give
C16_Witness ==
    /\ input = ForcedTurnInput /\ pc = "returned"
    /\ width = 6 /\ height = 5 /\ Len(cells) = 48
    /\ start = Pos(0, 0) /\ end = Pos(5, 4)
    /\ min_steps_in_direction = 1 /\ max_steps_in_direction = 3
    /\ result = Some(17)

-----------------------------------------------------------------------------
(* Termination of find_path *)

MaxFairCells == 4

\* the direct calls of find_path on the grids of at most MaxFairCells cells
InitFair == Init /\ width * height <= MaxFairCells

\* find_path runs to completion once invoked: each enabled step is taken
FairSpec == InitFair /\ [][Next]_vars /\ WF_vars(Next)

\* the longest run a node can have: the seeds have run 1 whatever max is
LongestRun == IF max_steps > 1 THEN max_steps ELSE 1

\* the (position, direction, run-length) states of the grid
SearchStates ==
    { <<[x |-> x, y |-> y], d, r>> :
        x \in 0 .. width - 1, y \in 0 .. height - 1, d \in Direction, r \in 1 .. LongestRun }

\* what is left to do: an expansion uses up one state and pushes at most 3
\* nodes, and every other pop takes one node off the queue
Remaining ==
    4 * (Cardinality(SearchStates) - Cardinality(visited)) + BagCardinality(queue)

\* C13: find_path terminates for every grid, start, end, min and max: it
\* returns after finitely many pops, each (position, direction, run-length)
\* state is expanded at most once, and the work left shrinks with every pop
\* that does not return.
C13_Terminates ==
    /\ <>(pc = "returned")
    /\ [](visited \subseteq SearchStates)
    /\ [][(pc = "loop" /\ pc' = "loop")
            => /\ Remaining' < Remaining
               /\ visited' # visited
                    => /\ Key(node'[1]) \notin visited
                       /\ visited' = visited \cup {Key(node'[1])}]_vars

\* the search has ended because the queue ran empty, after it expanded
\* several states without reaching end
C13_Witness ==
    /\ pc = "returned" /\ result = None /\ queue = EmptyBag
    /\ ValidInput /\ start # end
    /\ Cardinality(visited) >= 2
    /\ node = None

-----------------------------------------------------------------------------
(* A second run of find_path, on the grid, start, end and min of the state  *)
(* and with max run mx; among the nodes that may be popped it takes one by  *)
(* a fixed rule.                                                            *)

\* lines 211-233, for max_steps_in_direction = mx
SuccessorsFor(n, mx) ==
    { SearchNode(nb.pos, n.cost + nb.cell, eval_heuristic(nb.pos), nb.direction,
                 IF n.direction = nb.direction THEN n.steps_in_direction + 1 ELSE 1) :
        nb \in { b \in neighbors(n.pos) :
                   /\ n.direction # opposite(b.direction)
                   /\ IF n.direction = b.direction
                      THEN ~(n.steps_in_direction >= mx)
                      ELSE n.steps_in_direction >= min_steps_in_direction } }

RECURSIVE search(_, _, _)
\* lines 202-235: the loop, from queue q and visited set vis
search(q, vis, mx) ==
    IF q = EmptyBag THEN None
    ELSE LET n == CHOOSE m \in Greatest(q) : TRUE
             rest == q (-) SetToBag({n})
         IN IF n.pos = end THEN Some(n.cost)
            ELSE IF Key(n) \in vis THEN search(rest, vis, mx)
            ELSE search(rest (+) SetToBag(SuccessorsFor(n, mx)), vis \cup {Key(n)}, mx)

\* lines 180-236
find_path(mx) == search(SetToBag(SeedNodes), {}, mx)

\* C14: the value find_path returns depends on its inputs only: whichever of
\* the nodes of equal cost + heuristic each pop takes, the result is that of
\* any other run on the same grid, start, end, min and max.
C14_ResultIndependentOfTieOrder ==
    (Returned /\ ValidInput /\ start # end) => result = find_path(max_steps)

-----------------------------------------------------------------------------
(* Interval<T> of src/src/range.rs, for T = u32 and T = u64.               *)
(* An interval is a record of start and length.  The integers of the model *)
(* are narrower than those of the source: U32_MAX stands for u32::MAX and  *)
(* U64_MAX for u64::MAX, with 2 * U32_MAX <= U64_MAX as in the source, so  *)
(* that start + length of a u32 interval fits a u64 and that of a u64      *)
(* interval need not.                                                      *)

U32_MAX == 4
U64_MAX == 9

MaxOf(t) == IF t = "u32" THEN U32_MAX ELSE U64_MAX

\* Interval::new
Interval_new(start_, length) == [start |-> start_, length |-> length]

\* Interval::len
Interval_len(self) == self.length

\* Interval::is_empty
Interval_is_empty(self) == Interval_len(self) = 0

\* the outcome of a computation that may panic
Returns(v) == <<"returns", v>>

Panic == <<"panics">>

\* `x + y` on u64: with overflow checks the addition panics when the sum
\* does not fit, without them it wraps around
u64_add(x, y, checks) ==
    IF x + y <= U64_MAX THEN Returns(x + y)
    ELSE IF checks THEN Panic
    ELSE Returns((x + y) % (U64_MAX + 1))

\* Interval::end: self.start as u64 + self.length as u64
Interval_end(self, checks) == u64_add(self.start, self.length, checks)

RECURSIVE Interval_intersection(_, _)
\* Interval::intersection
Interval_intersection(self, other) ==
    IF self.start >= other.start
    THEN LET diff == self.start - other.start IN
         IF Interval_len(other) > diff
         THEN LET length == IF self.length <= other.length - diff
                            THEN self.length ELSE other.length - diff
              IN IF length = 0 THEN None
                 ELSE Some(Interval_new(self.start, length))
         ELSE None
    ELSE Interval_intersection(other, self)

\* Overlaps::overlaps; both ends are computed before the comparison
Interval_overlaps(self, other, checks) ==
    LET a_start == self.start
        b_start == other.start
        a_end == Interval_end(self, checks)
        b_end == Interval_end(other, checks)
    IN IF a_end = Panic \/ b_end = Panic THEN Panic
       ELSE Returns(/\ a_start < b_end[2] /\ b_start < a_end[2]
                    /\ ~Interval_is_empty(self) /\ ~Interval_is_empty(other))

\* a.intersection(&b), b.intersection(&a) and a.overlaps(&b)
IntervalCall ==
    /\ iv_result = None
    /\ iv_result' = Some([ab |-> Interval_intersection(iv_a, iv_b),
                          ba |-> Interval_intersection(iv_b, iv_a),
                          overlaps |-> Interval_overlaps(iv_a, iv_b, iv_checks)])
    /\ UNCHANGED <<pathVars, parseVars, iv_type, iv_a, iv_b, iv_checks, almanacVars,
                   beamVars, extraVars>>

\* the Interval<T> values
Intervals(t) == [start : 0 .. MaxOf(t), length : 0 .. MaxOf(t)]

\* find_path and its callers are not run
NoSearch == part = 0 /\ NoGrid /\ pc = "none"

InitInterval ==
    /\ iv_type \in {"u32", "u64"}
    /\ iv_a \in Intervals(iv_type)
    /\ iv_b \in Intervals(iv_type)
    /\ iv_checks \in BOOLEAN
    /\ iv_result = None
    /\ NoSearch
    /\ NoParse
    /\ NoAlmanac
    /\ NoBeams
    /\ NoExtra

NextInterval == IntervalCall

SpecInterval == InitInterval /\ [][NextInterval]_vars

\* the points of an interval: start <= n < start + length
PointsOf(iv) == { n \in 0 .. 2 * U64_MAX : iv.start <= n /\ n < iv.start + iv.length }

\* C19: for all intervals a and b, of u32 and of u64, a.intersection(b) is
\* None when a and b share no point and else Some of the interval of exactly
\* their common points; b.intersection(a) is the same; and a.overlaps(b)
\* holds exactly when the intersection is Some.
C19_IntersectionAndOverlaps ==
    iv_result # None
        => LET r == iv_result[1]
               common == PointsOf(iv_a) \cap PointsOf(iv_b)
           IN /\ common = {} => r.ab = None
              /\ common # {} => (r.ab # None /\ PointsOf(r.ab[1]) = common)
              /\ r.ba = r.ab
              /\ r.overlaps = Returns(r.ab # None)

-----------------------------------------------------------------------------
(* Map and MappedRange of src/src/day5.rs; Range is Interval<u32> *)

MaxRanges == 2

\* Interval::excl(start, end), called with end >= start
Interval_excl(start_, end_) == Interval_new(start_, end_ - start_)

\* Interval::contains
Interval_contains(self, n) == n >= self.start /\ n - self.start < self.length

\* Interval::distance_from_start
Interval_distance_from_start(self, n) ==
    IF Interval_contains(self, n) THEN Some(n - self.start) ELSE None

\* MappedRange::from_triplet
from_triplet(destination, source, length) ==
    [source |-> Interval_new(source, length),
     destination |-> Interval_new(destination, length)]

\* MappedRange::map: checked_add(distance).unwrap() panics above u32::MAX
MappedRange_map(self, source) ==
    LET distance == Interval_distance_from_start(self.source, source) IN
    IF distance = None THEN Returns(None)
    ELSE IF self.destination.start + distance[1] > U32_MAX THEN Panic
    ELSE Returns(Some(self.destination.start + distance[1]))

\* MappedRange::map_range
MappedRange_map_range(self, source_range) ==
    LET source_overlap == Interval_intersection(self.source, source_range) IN
    IF source_overlap = None THEN Returns(None)
    ELSE LET destination_start == MappedRange_map(self, source_overlap[1].start) IN
         IF destination_start = Panic THEN Panic
         ELSE Returns(Some(Interval_new(destination_start[2][1],
                                        Interval_len(source_overlap[1]))))

RECURSIVE Map_map(_, _)
\* Map::map: the image under the first range that maps source, else source
Map_map(ranges, source) ==
    IF ranges = <<>> THEN Returns(source)
    ELSE LET mapped == MappedRange_map(Head(ranges), source) IN
         IF mapped = Panic THEN Panic
         ELSE IF mapped[2] # None THEN Returns(mapped[2][1])
         ELSE Map_map(Tail(ranges), source)

\* .filter(|range| range.source.overlaps(&source_range)), order kept
RECURSIVE filter_overlaps(_, _)
filter_overlaps(ranges, source_range) ==
    IF ranges = <<>> THEN <<>>
    ELSE LET rest == filter_overlaps(Tail(ranges), source_range) IN
         IF Interval_overlaps(Head(ranges).source, source_range, TRUE) = Returns(TRUE)
         THEN <<Head(ranges)>> \o rest
         ELSE rest

\* r put into the sorted s behind every range that does not start after it
RECURSIVE insert_by_start(_, _)
insert_by_start(s, r) ==
    IF s = <<>> THEN <<r>>
    ELSE IF Head(s).source.start <= r.source.start
    THEN <<Head(s)>> \o insert_by_start(Tail(s), r)
    ELSE <<r>> \o s

\* copy.sort_by_key(|range| range.source.start()): a stable sort
RECURSIVE sort_by_start(_)
sort_by_start(s) ==
    IF s = <<>> THEN <<>>
    ELSE insert_by_start(sort_by_start(SubSeq(s, 1, Len(s) - 1)), s[Len(s)])

\* lines 72-78: what follows the loop
map_range_tail(source_range, result_, last) ==
    IF source_range.start + source_range.length > last
    THEN IF last > U32_MAX THEN Panic
         ELSE LET rest == Interval_intersection(Interval_new(last, U32_MAX - 1),
                                                source_range)
              IN IF rest = None THEN Panic ELSE Returns(Append(result_, rest[1]))
    ELSE Returns(result_)

RECURSIVE map_range_loop(_, _, _, _)
\* lines 65-71: `for range in ranges`, with the result and last so far
map_range_loop(ranges, source_range, result_, last) ==
    IF ranges = <<>> THEN map_range_tail(source_range, result_, last)
    ELSE LET range == Head(ranges)
             gap == IF range.source.start > last
                    THEN <<Interval_excl(last, range.source.start)>>
                    ELSE <<>>
             mapped == MappedRange_map_range(range, source_range)
         IN IF mapped = Panic \/ mapped = Returns(None) THEN Panic
            ELSE map_range_loop(Tail(ranges), source_range,
                                result_ \o gap \o <<mapped[2][1]>>,
                                range.source.start + range.source.length)

\* Map::map_range
Map_map_range(ranges, source_range) ==
    map_range_loop(sort_by_start(filter_overlaps(ranges, source_range)),
                   source_range, <<>>, source_range.start)

\* map.map_range(source_range).collect::<Vec<_>>()
MapRangeCall ==
    /\ m_result = None
    /\ m_result' = Some(Map_map_range(m_ranges, m_source_range))
    /\ UNCHANGED <<pathVars, parseVars, intervalVars, m_ranges, m_source_range,
                   beamVars, extraVars>>

\* the MappedRange values
MappedRanges ==
    { from_triplet(d, s, l) : d \in 0 .. U32_MAX, s \in 0 .. U32_MAX, l \in 0 .. U32_MAX }

InitAlmanac ==
    /\ m_ranges \in UNION { [1 .. n -> MappedRanges] : n \in 0 .. MaxRanges }
    /\ m_source_range \in Intervals("u32")
    /\ m_result = None
    /\ NoSearch
    /\ NoParse
    /\ NoInterval
    /\ NoBeams
    /\ NoExtra

NextAlmanac == MapRangeCall

SpecAlmanac == InitAlmanac /\ [][NextAlmanac]_vars

\* the points of an interval in ascending order
PointSeq(iv) == [i \in 1 .. iv.length |-> iv.start + i - 1]

\* the mapped source ranges share no point
SourcesDisjoint ==
    \A i, j \in 1 .. Len(m_ranges) :
        i # j => PointsOf(m_ranges[i].source) \cap PointsOf(m_ranges[j].source) = {}

\* every point of the source range is a u32 that Map::map maps
SourceRangeMappable ==
    /\ m_source_range.start + m_source_range.length <= U32_MAX + 1
    /\ \A x \in PointsOf(m_source_range) : Map_map(m_ranges, x) # Panic

\* C20: for a Map whose mapped source ranges do not overlap, map_range(R)
\* returns intervals whose points, taken in the order returned, are the
\* images Map::map(x) of the points x of R in ascending order: covered parts
\* are translated, gaps pass through unchanged, and the lengths sum to len(R).
C20_MapRangeIsImage ==
    (m_result # None /\ SourcesDisjoint /\ SourceRangeMappable)
        => /\ m_result[1] # Panic
           /\ flatten([i \in 1 .. Len(m_result[1][2]) |-> PointSeq(m_result[1][2][i])])
                = [i \in 1 .. m_source_range.length |->
                     Map_map(m_ranges, m_source_range.start + i - 1)[2]]

-----------------------------------------------------------------------------
(* The beams of src/src/day16.rs: Grid::follow_beams, part2 and            *)
(* part2_threaded.  grid16 is the one Grid all searches read; each thread  *)
(* of part2_threaded has its own beams, visited and EnergizedGrid.         *)

MaxBeamWidth == 2
MaxBeamHeight == 1

Cell16 == {"Empty", "MirrorNwSe", "MirrorNeSw", "SplitterNS", "SplitterEW"}

BeamDirection == {"North", "South", "East", "West"}

\* Cell::passes_through
passes_through(cell, direction) ==
    \/ cell = "Empty"
    \/ cell = "SplitterNS" /\ direction \in {"North", "South"}
    \/ cell = "SplitterEW" /\ direction \in {"East", "West"}

\* Beam::new
Beam(pos, direction) == [pos |-> pos, direction |-> direction]

\* Beam::with_direction
with_direction(beam, direction) == [pos |-> beam.pos, direction |-> direction]

\* Beam::with_pos
with_pos(beam, pos) == [pos |-> pos, direction |-> beam.direction]

\* Cell::mirror_turn_beam, for the two mirrors
mirror_turn_beam(cell, beam) ==
    IF cell = "MirrorNwSe"
    THEN with_direction(beam,
            CASE beam.direction = "North" -> "West"
              [] beam.direction = "South" -> "East"
              [] beam.direction = "East" -> "South"
              [] beam.direction = "West" -> "North")
    ELSE with_direction(beam,
            CASE beam.direction = "North" -> "East"
              [] beam.direction = "South" -> "West"
              [] beam.direction = "East" -> "North"
              [] beam.direction = "West" -> "South")

\* Cell::splitter_split_beam, for the two splitters: an Option<(Beam, Beam)>
splitter_split_beam(cell, beam) ==
    IF cell = "SplitterNS"
    THEN IF beam.direction \in {"North", "South"} THEN None
         ELSE Some(<<with_direction(beam, "North"), with_direction(beam, "South")>>)
    ELSE IF beam.direction \in {"North", "South"}
         THEN Some(<<with_direction(beam, "East"), with_direction(beam, "West")>>)
         ELSE None

\* Cell::is_mirror
is_mirror(cell) == cell \in {"MirrorNwSe", "MirrorNeSw"}

\* Pos::step of day16: checked_sub(1) fails at 0
beam_pos_step(self, direction) ==
    CASE direction = "North" -> IF self.y = 0 THEN None ELSE Some(Pos(self.x, self.y - 1))
      [] direction = "South" -> Some(Pos(self.x, self.y + 1))
      [] direction = "East" -> Some(Pos(self.x + 1, self.y))
      [] direction = "West" -> IF self.x = 0 THEN None ELSE Some(Pos(self.x - 1, self.y))

\* Grid::contains of day16
grid16_contains(pos) == pos.x < grid16.width /\ pos.y < grid16.height

\* Grid::get of day16
grid16_get(pos) == grid16.cells[pos.y * grid16.width + pos.x + 1]

\* Grid::beam_step: an Option<Beam>
beam_step(beam) ==
    LET pos == beam_pos_step(beam.pos, beam.direction) IN
    IF pos # None /\ grid16_contains(pos[1]) THEN Some(with_pos(beam, pos[1])) ELSE None

\* EnergizedGrid::new
EnergizedGrid_new ==
    [cells |-> [i \in 1 .. Len(grid16.cells) |-> 0],
     width |-> grid16.width, height |-> grid16.height, energized_count |-> 0]

\* EnergizedGrid::set_energized
set_energized(self, pos) ==
    LET i == pos.y * self.width + pos.x + 1 IN
    IF self.cells[i] = 0
    THEN [self EXCEPT !.cells[i] = 1, !.energized_count = self.energized_count + 1]
    ELSE self

RECURSIVE beam_ray_find_map(_, _)
\* lines 185-194: self.beam_ray(beam).find_map(..): every beam of the ray is
\* energized up to and with the first whose cell it does not pass through
beam_ray_find_map(successor, energized_grid) ==
    LET energized == set_energized(energized_grid, successor.pos)
        cell == grid16_get(successor.pos)
    IN IF passes_through(cell, successor.direction)
       THEN IF beam_step(successor) = None
            THEN [energized_grid |-> energized, found |-> None]
            ELSE beam_ray_find_map(beam_step(successor)[1], energized)
       ELSE [energized_grid |-> energized,
             found |-> Some([beam |-> successor, cell |-> cell])]

\* lines 198-208: the beams pushed for the cell that stopped the ray
next_beams(beam, cell) ==
    IF is_mirror(cell) THEN beam_step(mirror_turn_beam(cell, beam))
    ELSE LET split == splitter_split_beam(cell, beam) IN
         IF split # None
         THEN beam_step(split[1][1]) \o beam_step(split[1][2])
         ELSE beam_step(beam)

\* lines 179-209: one iteration of `while let Some(beam) = beams.pop()` on the
\* locals st = [beams, visited, energized_grid] with beams not empty
follow_beams_iter(st) ==
    LET beam == st.beams[Len(st.beams)]
        rest == SubSeq(st.beams, 1, Len(st.beams) - 1)
    IN IF beam \in st.visited
       THEN [st EXCEPT !.beams = rest]
       ELSE LET r == beam_ray_find_map(beam, st.energized_grid) IN
            [beams |-> IF r.found = None THEN rest
                       ELSE rest \o next_beams(r.found[1].beam, r.found[1].cell),
             visited |-> st.visited \cup {beam},
             energized_grid |-> r.energized_grid]

RECURSIVE follow_beams_from(_)
follow_beams_from(st) ==
    IF st.beams = <<>> THEN st.energized_grid
    ELSE follow_beams_from(follow_beams_iter(st))

\* the locals of a search at its start
Locals(beam) == [beams |-> <<beam>>, visited |-> {}, energized_grid |-> EnergizedGrid_new]

\* Grid::follow_beams(vec![beam], &mut EnergizedGrid::new(grid)): the
\* EnergizedGrid it leaves
follow_beams(beam) == follow_beams_from(Locals(beam))

\* lines 297-301 and 326-330: the beams that enter the grid from its four
\* edges, in the order of the chained iterators
Starts ==
    [i \in 1 .. grid16.width |-> Beam(Pos(i - 1, 0), "South")]
    \o [i \in 1 .. grid16.width |-> Beam(Pos(i - 1, grid16.height - 1), "North")]
    \o [i \in 1 .. grid16.height |-> Beam(Pos(0, i - 1), "East")]
    \o [i \in 1 .. grid16.height |-> Beam(Pos(grid16.width - 1, i - 1), "West")]

\* Iterator::max of the counts, None for no count
max_of(counts) ==
    IF counts = {} THEN None
    ELSE Some(CHOOSE c \in counts : \A d \in counts : d <= c)

\* part2: one search after the other; .max().unwrap() panics on no start
part2_beams ==
    LET m == max_of({ follow_beams(Starts[i]).energized_count : i \in 1 .. Len(Starts) })
    IN IF m = None THEN Panic ELSE Returns(m[1])

\* lines 326-345: a step of the collect() of the spawned threads: the spawn
\* of the closure for the next start, whose thread begins with its own
\* EnergizedGrid, or the end of the starts
Spawn ==
    /\ main_pc = "spawn"
    /\ IF Len(threads) < Len(Starts)
       THEN /\ threads' = Append(threads,
                                 [pc |-> "running", count |-> None]
                                     @@ Locals(Starts[Len(threads) + 1]))
            /\ UNCHANGED main_pc
       ELSE /\ main_pc' = "join"
            /\ UNCHANGED threads
    /\ UNCHANGED <<grid16, joined, best, threaded_result, pathVars, parseVars,
                   intervalVars, almanacVars,
                   extraVars>>

\* a step of the closure in thread i that writes the locals of thread j: one
\* iteration of the loop of follow_beams, or the return of energized_count
ThreadStepInto(i, j) ==
    /\ threads[i].pc = "running"
    /\ IF threads[i].beams = <<>>
       THEN threads' = [threads EXCEPT ![j].pc = "finished",
                           ![j].count = Some(threads[i].energized_grid.energized_count)]
       ELSE LET st == follow_beams_iter(threads[i]) IN
            threads' = [threads EXCEPT ![j].beams = st.beams,
                                       ![j].visited = st.visited,
                                       ![j].energized_grid = st.energized_grid]
    /\ UNCHANGED <<grid16, main_pc, joined, best, threaded_result, pathVars, parseVars,
                   intervalVars, almanacVars,
                   extraVars>>

\* all threads write one EnergizedGrid, that of the first
ThreadStep_SharedGrid ==
    \E i \in 1 .. Len(threads) :
        /\ threads[i].pc = "running"
        /\ IF threads[i].beams = <<>>
           THEN threads' = [threads EXCEPT ![i].pc = "finished",
                               ![i].count = Some(threads[1].energized_grid.energized_count)]
           ELSE LET st == follow_beams_iter([threads[i] EXCEPT
                                !.energized_grid = threads[1].energized_grid])
                IN threads' = [threads EXCEPT ![i].beams = st.beams,
                                              ![i].visited = st.visited,
                                              ![1].energized_grid = st.energized_grid]
        /\ UNCHANGED <<grid16, main_pc, joined, best, threaded_result, pathVars,
                       parseVars, intervalVars, almanacVars,
                   extraVars>>

\* lines 339-343: a step of one of the spawned threads, on its own locals
ThreadStep == \E i \in 1 .. Len(threads) : ThreadStepInto(i, i)

\* lines 347-351: threads.into_iter().map(|t| t.join().unwrap()).max().unwrap()
\* joins the threads in the order they were spawned in
Join ==
    /\ main_pc = "join"
    /\ IF joined < Len(threads)
       THEN /\ threads[joined + 1].pc = "finished"
            /\ joined' = joined + 1
            /\ best' = max_of({threads[joined + 1].count[1]} \cup { best[i] : i \in 1 .. Len(best) })
            /\ UNCHANGED <<main_pc, threaded_result>>
       ELSE /\ main_pc' = IF best = None THEN "panicked" ELSE "done"
            /\ threaded_result' = best
            /\ UNCHANGED <<joined, best>>
    /\ UNCHANGED <<grid16, threads, pathVars, parseVars, intervalVars, almanacVars,
                   extraVars>>

\* the grids of the searches: the grid of no line, and those of lines of
\* one length
Grids16 ==
    {[cells |-> <<>>, width |-> 0, height |-> 0]} \cup
    UNION { { [cells |-> c, width |-> w, height |-> h] : c \in [1 .. w * h -> Cell16] } :
            <<w, h>> \in (1 .. MaxBeamWidth) \X (1 .. MaxBeamHeight) }

InitBeams ==
    /\ grid16 \in Grids16
    /\ threads = <<>>
    /\ main_pc = "spawn"
    /\ joined = 0
    /\ best = None
    /\ threaded_result = None
    /\ NoSearch
    /\ NoParse
    /\ NoInterval
    /\ NoAlmanac
    /\ NoExtra

NextBeams == Spawn \/ ThreadStep \/ Join

SpecBeams == InitBeams /\ [][NextBeams]_vars


-----------------------------------------------------------------------------
(* Properties of part2_threaded (SpecBeams) *)

\* what part2_threaded has come to
threaded_outcome == IF main_pc = "panicked" THEN Panic ELSE Returns(threaded_result[1])

\* C17: part2_threaded(grid) == part2(grid) for every grid, whatever the
\* order the threads run in: when part2_threaded ends it has returned what
\* part2 returns (or panicked where part2 panics); every step of a thread
\* changes the locals of that thread alone, its EnergizedGrid among them, and
\* no step changes the shared grid.
C17_ThreadedEqualsSequential ==
    /\ [](main_pc \in {"done", "panicked"} => threaded_outcome = part2_beams)
    /\ [][/\ grid16' = grid16
          /\ Len(threads') = Len(threads)
                => \A i, j \in 1 .. Len(threads) :
                      (threads'[i] # threads[i] /\ threads'[j] # threads[j]) => i = j
          /\ \A i \in 1 .. Len(threads) :
                threads'[i] # threads[i] => threads[i].pc = "running"]_vars

\* part2_threaded has returned for a grid of two cells that stop the beams
\* along the row, so that the searches energize different cells
C17_Witness ==
    /\ main_pc = "done"
    /\ grid16.width = 2
    /\ grid16.cells = <<"SplitterNS", "SplitterNS">>
    /\ joined = Len(Starts)
    /\ threaded_result = Some(1)
    /\ \E i, j \in 1 .. Len(threads) :
          threads[i].energized_grid.cells # threads[j].energized_grid.cells


-----------------------------------------------------------------------------
(* The visited set of find_path (Spec) *)

\* the step pops a node whose key is already in visited
Discards == pc = "loop" /\ node' # None /\ node'[1].pos # end /\ Key(node'[1]) \in visited

\* C23: during one find_path run every (position, direction, run-length)
\* triple is expanded at most once: a popped node whose triple is already in
\* the visited set pushes no successors, successors are pushed only by a
\* node that inserts its triple, and the visited set only grows.
C23_ExpandedAtMostOnce ==
    [][/\ visited \subseteq visited'
       /\ Discards => (queue' = queue (-) SetToBag({node'[1]}) /\ visited' = visited)
       /\ (pc = "loop" /\ Pushed # {})
            => /\ Key(node'[1]) \notin visited
               /\ visited' = visited \cup {Key(node'[1])}]_vars

\* a node that could have pushed successors was popped with its triple
\* already in the visited set, and none of its successors is in the queue
C23_Witness ==
    /\ pc = "loop" /\ node # None /\ ValidInput /\ start # end
    /\ Key(node[1]) \in visited
    /\ node[1] \notin expanded
    /\ Successors(node[1]) # {}
    /\ \A m \in Successors(node[1]) : ~BagIn(m, queue)

-----------------------------------------------------------------------------
(* Direct calls of find_path on one grid of 4 x 3 cells, where a path that  *)
(* first leads away from end is cheaper than the direct one                 *)

DetourCells ==
    <<0, 1, 1, 0,
      1, 1, 0, 1,
      0, 0, 1, 1>>

InitDetour ==
    /\ width = 4
    /\ height = 3
    /\ cells = DetourCells
    /\ part = 0
    /\ start \in { Pos(x, y) : x \in 0 .. width - 1, y \in 0 .. height - 1 }
    /\ end \in { Pos(x, y) : x \in 0 .. width - 1, y \in 0 .. height - 1 }
    /\ min_steps_in_direction \in 1 .. MaxStepsBound
    /\ max_steps_in_direction \in min_steps_in_direction .. MaxStepsBound
    /\ queue = EmptyBag
    /\ visited = {}
    /\ expanded = {}
    /\ node = None
    /\ result = None
    /\ answer = 0
    /\ pc = "find_path"
    /\ NoParse
    /\ NoPure

SpecDetour == InitDetour /\ [][Next]_vars


\* C25: find_path returns the cost of the first popped node whose position
\* equals end, whatever its direction and run-length (also a run-length
\* below min_steps_in_direction): a popped node at end ends the search with
\* its cost before the visited set is looked at, any other popped node does
\* not end it, and so no node at end is ever expanded or in the visited set.
C25_FirstNodeAtEndReturns ==
    /\ [](\A n \in expanded : n.pos # end)
    /\ [](\A k \in visited : k[1] # end)
    /\ [][(pc = "loop" /\ node' # None)
            => IF node'[1].pos = end
               THEN /\ pc' = "returned"
                    /\ result' = Some(node'[1].cost)
                    /\ visited' = visited
               ELSE pc' = "loop" /\ result' = result]_vars

\* find_path has returned the cost of a node that reached end by a turn
\* (run-length 1) where min_steps_in_direction is 2
C25_Witness ==
    /\ Returned /\ ValidInput /\ start # end
    /\ node # None /\ node[1].pos = end
    /\ node[1].steps_in_direction < min_steps
    /\ visited # {}
    /\ result = Some(node[1].cost)

\* the cell one step in direction d from p
Ahead(p, d) == Back(p, Reverse(d))

\* C26: the search is seeded with exactly one node for each of the 4
\* directions whose step from start stays inside the grid, each with
\* run-length 1, the cost of the entered cell alone and the Manhattan
\* distance from that cell to end, whatever min_steps_in_direction is; a
\* seeded node whose run-length 1 is below min_steps_in_direction pushes no
\* successor that turns.
C26_Seeding ==
    [][/\ pc = "find_path"
            => /\ queue' = SetToBag(
                     { [pos |-> Ahead(start, d), cost |-> CostOf(Ahead(start, d)),
                        heuristic |-> abs_diff(Ahead(start, d).x, end.x)
                                        + abs_diff(Ahead(start, d).y, end.y),
                        direction |-> d, steps_in_direction |-> 1] :
                       d \in { e \in Direction : InGrid(Ahead(start, e)) } })
               /\ visited' = {}
       /\ (pc = "loop" /\ node' # None /\ node'[1].steps_in_direction = 1
             /\ min_steps >= 2)
            => \A m \in Pushed : m.direction = node'[1].direction]_vars

\* from a start with four neighbours and min_steps_in_direction = 2 the
\* four seeds were pushed and the first of them was expanded: its one
\* successor goes straight on
C26_Witness ==
    /\ pc = "loop" /\ node # None /\ min_steps = 2
    /\ visited = {Key(node[1])}
    /\ node[1].steps_in_direction = 1
    /\ Back(node[1].pos, node[1].direction) = start
    /\ Cardinality({ d \in Direction : InGrid(Ahead(start, d)) }) = 4
    /\ BagCardinality(queue) = 4
    /\ \E m \in BagToSet(queue) :
          m.steps_in_direction = 2 /\ m.direction = node[1].direction


-----------------------------------------------------------------------------
(* Direct calls of find_path on every small grid whose cells all cost at    *)
(* least 1                                                                  *)

MaxPosCost == 2

InitPos ==
    /\ width \in 1 .. MaxWidth
    /\ height \in 1 .. MaxHeight
    /\ cells \in [1 .. width * height -> 1 .. MaxPosCost]
    /\ part = 0
    /\ start \in Positions(width, height)
    /\ end \in Positions(width, height)
    /\ min_steps_in_direction \in 0 .. MaxStepsBound
    /\ max_steps_in_direction \in 0 .. MaxStepsBound
    /\ queue = EmptyBag
    /\ visited = {}
    /\ expanded = {}
    /\ node = None
    /\ result = None
    /\ answer = 0
    /\ pc = "find_path"
    /\ NoParse
    /\ NoPure

SpecPos == InitPos /\ [][Next]_vars

\* the nodes of least cost
Cheapest(q) ==
    { n \in BagToSet(q) : \A m \in BagToSet(q) : n.cost <= m.cost }

RECURSIVE uniform_cost(_, _)
\* the loop of find_path with the queue ordered by cost alone
uniform_cost(q, vis) ==
    IF q = EmptyBag THEN None
    ELSE LET n == CHOOSE m \in Cheapest(q) : TRUE
             rest == q (-) SetToBag({n})
         IN IF n.pos = end THEN Some(n.cost)
            ELSE IF Key(n) \in vis THEN uniform_cost(rest, vis)
            ELSE uniform_cost(rest (+) SetToBag(Successors(n)), vis \cup {Key(n)})

\* uniform-cost search over the (position, direction, run-length) states
uniform_cost_search == uniform_cost(SetToBag(SeedNodes), {})

\* C27: when every cell costs at least 1 the cost + heuristic of the nodes
\* popped one after the other never decreases, and the value find_path
\* returns is the least cost of a valid path, which is also what
\* uniform-cost search without the heuristic returns.
C27_ConsistentHeuristic ==
    /\ []((Returned /\ ValidInput)
            => /\ result = BestPath(min_steps, max_steps)
               /\ result = uniform_cost_search)
    /\ [][(pc = "loop" /\ node # None /\ node' # None)
            => node'[1].cost + node'[1].heuristic
                 >= node[1].cost + node[1].heuristic]_vars

\* find_path has returned the cost of a path that is not the first to have
\* been tried: several states were expanded, a cell of cost 2 is in the grid
\* and a dearer node is left in the queue
C27_Witness ==
    /\ Returned /\ ValidInput /\ start # end /\ result # None
    /\ \A i \in 1 .. Len(cells) : cells[i] >= 1
    /\ \E i \in 1 .. Len(cells) : cells[i] = 2
    /\ Cardinality(visited) >= 3
    /\ \E m \in BagToSet(queue) : m.cost + m.heuristic > result[1]
    /\ result = uniform_cost_search


-----------------------------------------------------------------------------
(* The lens boxes of src/src/day15.rs: Step::from_ascii, LensesBox and      *)
(* Registry::apply_step.  A u8 is a number in 0 .. 255.                     *)

MaxApplied == 4
MaxFocal == 2

ByteA == 97         \* b'a'
ByteZ == 122        \* b'z'
ByteMinus == 45     \* b'-'
ByteEq == 61        \* b'='
LabelLen == 8       \* Label([u8; 8])
NumBoxes == 256     \* [LensesBox; 256]
U8 == 256           \* the number of u8 values
HashFactor == 17

RECURSIVE hash_fold(_, _)
\* fold(0u8, |acc, b| b.wrapping_add(acc).wrapping_mul(17)), from acc
hash_fold(bytes, acc) ==
    IF bytes = <<>> THEN acc
    ELSE hash_fold(Tail(bytes), (((Head(bytes) + acc) % U8) * HashFactor) % U8)

hash_d15(bytes) == hash_fold(bytes, 0)

\* hashed_d15 for Label: the hash of the bytes before the first 0
Label_hashed_d15(label) ==
    LET zeros == { i \in 1 .. Len(label) : label[i] = 0 }
        n == IF zeros = {} THEN Len(label) ELSE SetMin(zeros) - 1
    IN hash_d15(SubSeq(label, 1, n))

Op_Minus == <<"Minus">>

Op_Eq(focal_length) == <<"Eq", focal_length>>

Step(label, box_, op) == [label |-> label, box_ |-> box_, op |-> op]

Lens(label, focal_length) == [label |-> label, focal_length |-> focal_length]

RECURSIVE from_ascii_loop(_, _, _)
\* lines 75-91: the loop over the bytes of s from index i (counted from 0);
\* the label and the op it ends with
from_ascii_loop(s, i, label) ==
    IF i >= Len(s) THEN Returns([label |-> label, op |-> Op_Minus])
    ELSE LET byte == s[i + 1] IN
         IF byte >= ByteA /\ byte <= ByteZ
         THEN IF i >= LabelLen THEN Panic
              ELSE from_ascii_loop(s, i + 1, [label EXCEPT ![i + 1] = byte])
         ELSE IF byte = ByteMinus THEN Returns([label |-> label, op |-> Op_Minus])
         ELSE IF byte = ByteEq
         THEN IF i + 1 >= Len(s) \/ s[i + 2] < Byte0 THEN Panic
              ELSE Returns([label |-> label, op |-> Op_Eq(s[i + 2] - Byte0)])
         ELSE Panic

\* Step::from_ascii
from_ascii(s) ==
    LET r == from_ascii_loop(s, 0, SubSeq([k \in 1 .. LabelLen |-> 0], 1, LabelLen)) IN
    IF r = Panic THEN Panic
    ELSE Returns(Step(r[2].label, Label_hashed_d15(r[2].label), r[2].op))

\* LensesBox::remove: retain the lenses of another label
LensesBox_remove(lenses, label) ==
    SelectSeq(lenses, LAMBDA lens : lens.label # label)

\* LensesBox::add that pushes the lens whether or not the label is there
LensesBox_add_AlwaysPushes(lenses, label, focal_length) ==
    Append(lenses, Lens(label, focal_length))

\* LensesBox::add
LensesBox_add(lenses, label, focal_length) ==
    LET found == { i \in 1 .. Len(lenses) : lenses[i].label = label } IN
    IF found # {}
    THEN [lenses EXCEPT ![SetMin(found)].focal_length = focal_length]
    ELSE Append(lenses, Lens(label, focal_length))

\* Registry::apply_step
Registry_apply_step(self, step_) ==
    IF step_.op = Op_Minus
    THEN [self EXCEPT ![step_.box_] = LensesBox_remove(self[step_.box_], step_.label)]
    ELSE [self EXCEPT ![step_.box_] =
                         LensesBox_add(self[step_.box_], step_.label, step_.op[2])]

\* the labels of the example: rn and cm hash to 0, pc, ot and ab to 3
StepLabels == {<<114, 110>>, <<99, 109>>, <<112, 99>>, <<111, 116>>, <<97, 98>>}

\* the steps "label-" and "label=f"
StepInputs ==
    { l \o <<ByteMinus>> : l \in StepLabels }
        \cup { l \o <<ByteEq, Byte0 + f>> : l \in StepLabels, f \in 1 .. MaxFocal }

\* lines 202-204: reg.apply_step(step) for the next step of the input
ApplyStep ==
    /\ boxes # <<>>
    /\ applied < MaxApplied
    /\ \E s \in StepInputs :
         /\ from_ascii(s) # Panic
         /\ last_step' = Some(from_ascii(s)[2])
         /\ boxes' = Registry_apply_step(boxes, from_ascii(s)[2])
    /\ applied' = applied + 1
    /\ UNCHANGED <<pathVars, parseVars, intervalVars, almanacVars, beamVars, dishVars,
                   flowVars, pulseVars>>

\* Registry::default(): every box is empty
InitLenses ==
    /\ boxes = [b \in 0 .. NumBoxes - 1 |-> <<>>]
    /\ last_step = None
    /\ applied = 0
    /\ NoSearch
    /\ NoParse
    /\ NoInterval
    /\ NoAlmanac
    /\ NoBeams
    /\ NoDish /\ NoFlows /\ NoPulses

NextLenses == ApplyStep

SpecLenses == InitLenses /\ [][NextLenses]_vars

-----------------------------------------------------------------------------
(* Properties of the Registry (SpecLenses) *)

\* the labels of a box, in the order of its lenses
LabelsOf(lenses) == [i \in 1 .. Len(lenses) |-> lenses[i].label]

\* s without its element at index i
Without(s, i) == SubSeq(s, 1, i - 1) \o SubSeq(s, i + 1, Len(s))

\* C30: after any sequence of steps every box holds at most one lens per
\* label and every lens sits in the box whose index is the hash of its
\* label; a step changes no box but the one of its label's hash; there an
\* '=' step on a label present replaces that lens's focal length alone, an
\* '=' step on a new label appends the lens at the end, and a '-' step
\* removes the lens of that label and keeps the others in their order.
C30_RegistrySteps ==
    /\ [](boxes # <<>> =>
            \A b \in 0 .. NumBoxes - 1 :
               /\ \A i, j \in 1 .. Len(boxes[b]) :
                     boxes[b][i].label = boxes[b][j].label => i = j
               /\ \A i \in 1 .. Len(boxes[b]) :
                     Label_hashed_d15(boxes[b][i].label) = b)
    /\ [][applied' = applied + 1 =>
            LET st == last_step'[1]
                old == boxes[st.box_]
                new == boxes'[st.box_]
                at == { i \in 1 .. Len(old) : old[i].label = st.label }
            IN /\ \A b \in 0 .. NumBoxes - 1 : b # st.box_ => boxes'[b] = boxes[b]
               /\ st.box_ = hash_d15(SelectSeq(st.label, LAMBDA c : c # 0))
               /\ (st.op = Op_Minus /\ at = {}) => new = old
               /\ (st.op = Op_Minus /\ at # {}) => new = Without(old, SetMin(at))
               /\ (st.op # Op_Minus /\ at = {})
                     => new = old \o <<Lens(st.label, st.op[2])>>
               /\ (st.op # Op_Minus /\ at # {})
                     => /\ LabelsOf(new) = LabelsOf(old)
                        /\ \A i \in 1 .. Len(old) :
                              new[i].focal_length =
                                 IF i \in at THEN st.op[2] ELSE old[i].focal_length
       ]_vars

\* the lenses pc, ot and ab were put in box 3 and the step "ot-" has
\* removed the middle one
C30_Witness ==
    /\ boxes # <<>>
    /\ last_step # None
    /\ last_step[1].op = Op_Minus
    /\ last_step[1].box_ = 3
    /\ SubSeq(last_step[1].label, 1, 2) = <<111, 116>>
    /\ applied = 4
    /\ Len(boxes[3]) = 2
    /\ SubSeq(boxes[3][1].label, 1, 2) = <<112, 99>>
    /\ SubSeq(boxes[3][2].label, 1, 2) = <<97, 98>>


-----------------------------------------------------------------------------
(* The tilting dish of src/src/day14.rs: Grid::roll, Grid::roll_cycle and    *)
(* part2.  A Grid is a record of tiles (row-major), width and height.       *)

MaxDishWidth == 3
MaxDishHeight == 3
MaxTarget == 5
MaxBalls == 2
MaxObstacles == 2

Tile == {"Empty", "Obstacle", "Ball"}

RollDirection == {"North", "South", "East", "West"}

\* Grid::clone_without_balls
clone_without_balls(self) ==
    [self EXCEPT !.tiles = [i \in 1 .. Len(self.tiles) |->
                              IF self.tiles[i] = "Ball" THEN "Empty" ELSE self.tiles[i]]]

\* Grid::get of day14
Dish_get(self, x, y) == self.tiles[y * self.width + x + 1]

\* Grid::set of day14: the debug_assert fails on a tile that is not Empty
Dish_set(self, x, y, tile) ==
    IF Dish_get(self, x, y) # "Empty" THEN Panic
    ELSE Returns([self EXCEPT !.tiles[y * self.width + x + 1] = tile])

\* lines 79-90 with the obstacle forgotten: first_empty stays where it is
RECURSIVE roll_north_column_ThroughObstacle(_, _, _, _, _)
roll_north_column_ThroughObstacle(self, new_grid, x, y, first_empty) ==
    IF y >= self.height THEN Returns(new_grid)
    ELSE IF Dish_get(self, x, y) = "Ball"
    THEN LET r == Dish_set(new_grid, x, first_empty, "Ball") IN
         IF r = Panic THEN Panic
         ELSE roll_north_column_ThroughObstacle(self, r[2], x, y + 1, first_empty + 1)
    ELSE roll_north_column_ThroughObstacle(self, new_grid, x, y + 1, first_empty)

\* lines 79-90: `for y in 0..self.height` of column x, from y on
RECURSIVE roll_north_column(_, _, _, _, _)
roll_north_column(self, new_grid, x, y, first_empty) ==
    IF y >= self.height THEN Returns(new_grid)
    ELSE IF Dish_get(self, x, y) = "Ball"
    THEN LET r == Dish_set(new_grid, x, first_empty, "Ball") IN
         IF r = Panic THEN Panic
         ELSE roll_north_column(self, r[2], x, y + 1, first_empty + 1)
    ELSE IF Dish_get(self, x, y) = "Obstacle"
    THEN roll_north_column(self, new_grid, x, y + 1, y + 1)
    ELSE roll_north_column(self, new_grid, x, y + 1, first_empty)

\* lines 96-107: `for y in (0..self.height).rev()` of column x; todo is the
\* number of rows still to visit, the next one is y = todo - 1
RECURSIVE roll_south_column(_, _, _, _, _)
roll_south_column(self, new_grid, x, todo, last_obstacle) ==
    IF todo = 0 THEN Returns(new_grid)
    ELSE LET y == todo - 1 IN
         IF Dish_get(self, x, y) = "Ball"
         THEN IF last_obstacle = 0 THEN Panic
              ELSE LET r == Dish_set(new_grid, x, last_obstacle - 1, "Ball") IN
                   IF r = Panic THEN Panic
                   ELSE roll_south_column(self, r[2], x, todo - 1, last_obstacle - 1)
         ELSE IF Dish_get(self, x, y) = "Obstacle"
         THEN roll_south_column(self, new_grid, x, todo - 1, y)
         ELSE roll_south_column(self, new_grid, x, todo - 1, last_obstacle)

\* lines 113-124: `for x in 0..self.width` of row y, from x on
RECURSIVE roll_west_row(_, _, _, _, _)
roll_west_row(self, new_grid, y, x, first_empty) ==
    IF x >= self.width THEN Returns(new_grid)
    ELSE IF Dish_get(self, x, y) = "Ball"
    THEN LET r == Dish_set(new_grid, first_empty, y, "Ball") IN
         IF r = Panic THEN Panic
         ELSE roll_west_row(self, r[2], y, x + 1, first_empty + 1)
    ELSE IF Dish_get(self, x, y) = "Obstacle"
    THEN roll_west_row(self, new_grid, y, x + 1, x + 1)
    ELSE roll_west_row(self, new_grid, y, x + 1, first_empty)

\* lines 130-141: `for x in (0..self.width).rev()` of row y; the next
\* column is x = todo - 1
RECURSIVE roll_east_row(_, _, _, _, _)
roll_east_row(self, new_grid, y, todo, last_obstacle) ==
    IF todo = 0 THEN Returns(new_grid)
    ELSE LET x == todo - 1 IN
         IF Dish_get(self, x, y) = "Ball"
         THEN IF last_obstacle = 0 THEN Panic
              ELSE LET r == Dish_set(new_grid, last_obstacle - 1, y, "Ball") IN
                   IF r = Panic THEN Panic
                   ELSE roll_east_row(self, r[2], y, todo - 1, last_obstacle - 1)
         ELSE IF Dish_get(self, x, y) = "Obstacle"
         THEN roll_east_row(self, new_grid, y, todo - 1, x)
         ELSE roll_east_row(self, new_grid, y, todo - 1, last_obstacle)

\* the outer loops of lines 77, 94, 111 and 128: line k of the grid and
\* those after it, in the given direction
RECURSIVE roll_lines(_, _, _, _)
roll_lines(self, new_grid, direction, k) ==
    IF k >= (IF direction \in {"North", "South"} THEN self.width ELSE self.height)
    THEN Returns(new_grid)
    ELSE LET r == CASE direction = "North" -> roll_north_column(self, new_grid, k, 0, 0)
                    [] direction = "South" ->
                         roll_south_column(self, new_grid, k, self.height, self.height)
                    [] direction = "West" -> roll_west_row(self, new_grid, k, 0, 0)
                    [] direction = "East" ->
                         roll_east_row(self, new_grid, k, self.width, self.width)
         IN IF r = Panic THEN Panic ELSE roll_lines(self, r[2], direction, k + 1)

\* Grid::roll: the rolled grid, or the panic of a failed debug_assert
roll(self, new_grid, direction) == roll_lines(self, new_grid, direction, 0)

\* Grid::roll_cycle
roll_cycle(self, template) ==
    LET north == roll(self, template, "North") IN
    IF north = Panic THEN Panic
    ELSE LET west == roll(north[2], template, "West") IN
    IF west = Panic THEN Panic
    ELSE LET south == roll(west[2], template, "South") IN
    IF south = Panic THEN Panic
    ELSE roll(south[2], template, "East")

RECURSIVE weight_rows(_, _, _)
\* lines 159-162: the rows from row y on, with row_weight for the first
weight_rows(self, y, row_weight) ==
    IF y >= self.height THEN 0
    ELSE row_weight * Cardinality({ x \in 0 .. self.width - 1 : Dish_get(self, x, y) = "Ball" })
           + weight_rows(self, y + 1, row_weight - 1)

\* Grid::weight
weight(self) == weight_rows(self, 0, self.height)


\* the grids of day14 of up to max_width x max_height tiles: every line has
\* the same length
Dishes(max_width, max_height) ==
    UNION { { [tiles |-> t, width |-> w, height |-> h] : t \in [1 .. w * h -> Tile] } :
            <<w, h>> \in (1 .. max_width) \X (1 .. max_height) }

BallsOf(g) == { i \in 1 .. Len(g.tiles) : g.tiles[i] = "Ball" }

ObstaclesOf(g) == { i \in 1 .. Len(g.tiles) : g.tiles[i] = "Obstacle" }

\* lines 253, 274, 295, 316: input.roll(input.clone_without_balls(), direction)
RollCall ==
    /\ dish_pc = "roll"
    /\ \E direction \in RollDirection :
         /\ roll_dir' = Some(direction)
         /\ rolled' = Some(roll(dish, clone_without_balls(dish), direction))
    /\ dish_pc' = "rolled"
    /\ UNCHANGED <<dish, target, history, roll_i, remaining, pathVars, parseVars,
                   intervalVars, almanacVars, beamVars, lensVars,
                   flowVars, pulseVars>>

InitRoll ==
    /\ dish \in Dishes(MaxDishWidth, MaxDishHeight)
    /\ target = 0 /\ history = {} /\ rolled = None /\ roll_i = 0
    /\ remaining = 0 /\ roll_dir = None /\ dish_pc = "roll"
    /\ NoSearch /\ NoParse /\ NoInterval /\ NoAlmanac /\ NoBeams /\ NoLenses /\ NoFlows
    /\ NoPulses

NextRoll == RollCall

SpecRoll == InitRoll /\ [][NextRoll]_vars

\* lines 195-197: part2 up to its loop
Part2Start ==
    /\ dish_pc = "part2"
    /\ history' = {}
    /\ rolled' = Some(Returns(dish))
    /\ roll_i' = 0
    /\ dish_pc' = "loop"
    /\ UNCHANGED <<dish, target, remaining, roll_dir, pathVars, parseVars,
                   intervalVars, almanacVars, beamVars, lensVars,
                   flowVars, pulseVars>>

\* Part2Loop with the remainder taken of the target and not of what is left
\* of it
Part2Loop_RemainderOfTarget ==
    /\ dish_pc = "loop"
    /\ IF roll_i >= target
       THEN /\ dish_pc' = "done"
            /\ UNCHANGED <<history, rolled, roll_i, remaining>>
       ELSE IF \E h \in history : h.grid = rolled[1][2]
       THEN LET prev_i == (CHOOSE h \in history : h.grid = rolled[1][2]).i IN
            /\ remaining' = target % (roll_i - prev_i)
            /\ dish_pc' = "remaining"
            /\ UNCHANGED <<history, rolled, roll_i>>
       ELSE /\ history' = history \cup {[grid |-> rolled[1][2], i |-> roll_i]}
            /\ rolled' = Some(roll_cycle(rolled[1][2], clone_without_balls(dish)))
            /\ roll_i' = roll_i + 1
            /\ dish_pc' = IF rolled'[1] = Panic THEN "panicked" ELSE "loop"
            /\ UNCHANGED remaining
    /\ UNCHANGED <<dish, target, roll_dir, pathVars, parseVars, intervalVars,
                   almanacVars, beamVars, lensVars,
                   flowVars, pulseVars>>

\* lines 199-210: one iteration of `for i in 0..TARGET_ROLL_CYCLES`, or its end
Part2Loop ==
    /\ dish_pc = "loop"
    /\ IF roll_i >= target
       THEN /\ dish_pc' = "done"
            /\ UNCHANGED <<history, rolled, roll_i, remaining>>
       ELSE IF \E h \in history : h.grid = rolled[1][2]
       THEN LET prev_i == (CHOOSE h \in history : h.grid = rolled[1][2]).i IN
            /\ remaining' = (target - roll_i) % (roll_i - prev_i)
            /\ dish_pc' = "remaining"
            /\ UNCHANGED <<history, rolled, roll_i>>
       ELSE /\ history' = history \cup {[grid |-> rolled[1][2], i |-> roll_i]}
            /\ rolled' = Some(roll_cycle(rolled[1][2], clone_without_balls(dish)))
            /\ roll_i' = roll_i + 1
            /\ dish_pc' = IF rolled'[1] = Panic THEN "panicked" ELSE "loop"
            /\ UNCHANGED remaining
    /\ UNCHANGED <<dish, target, roll_dir, pathVars, parseVars, intervalVars,
                   almanacVars, beamVars, lensVars,
                   flowVars, pulseVars>>

\* lines 202-205: one iteration of `for _ in 0..remaining`, or its end and
\* the break
Part2Remaining ==
    /\ dish_pc = "remaining"
    /\ IF remaining = 0
       THEN /\ dish_pc' = "done"
            /\ UNCHANGED <<rolled, remaining>>
       ELSE /\ rolled' = Some(roll_cycle(rolled[1][2], clone_without_balls(dish)))
            /\ remaining' = remaining - 1
            /\ dish_pc' = IF rolled'[1] = Panic THEN "panicked" ELSE "remaining"
    /\ UNCHANGED <<dish, target, history, roll_i, roll_dir, pathVars, parseVars,
                   intervalVars, almanacVars, beamVars, lensVars,
                   flowVars, pulseVars>>

InitDish ==
    /\ dish \in { d \in Dishes(MaxDishWidth, MaxDishHeight) :
                    /\ Cardinality(BallsOf(d)) <= MaxBalls
                    /\ Cardinality(ObstaclesOf(d)) <= MaxObstacles }
    /\ target \in 0 .. MaxTarget
    /\ history = {} /\ rolled = None /\ roll_i = 0
    /\ remaining = 0 /\ roll_dir = None /\ dish_pc = "part2"
    /\ NoSearch /\ NoParse /\ NoInterval /\ NoAlmanac /\ NoBeams /\ NoLenses /\ NoFlows
    /\ NoPulses

NextDish == Part2Start \/ Part2Loop \/ Part2Remaining

SpecDish == InitDish /\ [][NextDish]_vars


-----------------------------------------------------------------------------
(* Properties of the dish (SpecRoll, SpecDish) *)

\* the tile of g at (x, y), "Edge" outside the grid
TileAt(g, x, y) ==
    IF x \in 0 .. g.width - 1 /\ y \in 0 .. g.height - 1
    THEN g.tiles[y * g.width + x + 1] ELSE "Edge"

\* the tile next to (x, y) on the side a roll in direction d goes to
Towards(g, x, y, d) ==
    CASE d = "North" -> TileAt(g, x, y - 1)
      [] d = "South" -> TileAt(g, x, y + 1)
      [] d = "West" -> TileAt(g, x - 1, y)
      [] d = "East" -> TileAt(g, x + 1, y)

\* C29: for each of the four directions grid.roll(grid.clone_without_balls(),
\* dir) never sets a ball on a tile of the template that is not Empty (no
\* debug_assert fails), and the rolled grid has the obstacles of the input,
\* as many balls as the input, and every ball next to the edge, an obstacle
\* or another ball on the side it was rolled to.
C29_RollSettlesBalls ==
    dish_pc = "rolled"
        => /\ rolled[1] # Panic
           /\ LET g == rolled[1][2] IN
              /\ g.width = dish.width /\ g.height = dish.height
              /\ Len(g.tiles) = Len(dish.tiles)
              /\ ObstaclesOf(g) = ObstaclesOf(dish)
              /\ Cardinality(BallsOf(g)) = Cardinality(BallsOf(dish))
              /\ \A x \in 0 .. g.width - 1, y \in 0 .. g.height - 1 :
                    TileAt(g, x, y) = "Ball"
                       => Towards(g, x, y, roll_dir[1]) \in {"Edge", "Obstacle", "Ball"}

\* a roll to the north has moved a ball up to an obstacle and another ball
\* up to that ball
C29_Witness ==
    /\ dish_pc = "rolled" /\ roll_dir = Some("North") /\ rolled[1] # Panic
    /\ rolled[1][2] # dish
    /\ \E x \in 0 .. dish.width - 1 :
          /\ TileAt(dish, x, 0) = "Obstacle"
          /\ TileAt(dish, x, 1) = "Empty"
          /\ TileAt(rolled[1][2], x, 1) = "Ball"
    /\ \E x \in 0 .. dish.width - 1 :
          /\ TileAt(dish, x, 1) = "Empty" /\ TileAt(dish, x, 2) = "Ball"
          /\ TileAt(dish, x, 0) = "Ball"
          /\ TileAt(rolled[1][2], x, 1) = "Ball"

RECURSIVE roll_orbit(_, _)
\* the grids of 0, 1, .. n applications of roll_cycle to g, in this order
roll_orbit(g, n) ==
    IF n = 0 THEN <<Returns(g)>>
    ELSE LET o == roll_orbit(g, n - 1) IN
         Append(o, IF o[n] = Panic THEN Panic
                   ELSE roll_cycle(o[n][2], clone_without_balls(g)))

\* C28: the cycle detection of part2 is exact.  The grid after i cycles is
\* entered in the history under i, so that the first grid found again, after
\* i cycles, was first seen after prev_i cycles; (T - i) mod (i - prev_i)
\* further cycles are then made, and the grid part2 ends with, hence its
\* weight, is that of T roll cycles from the initial grid.
C28_CycleDetectionExact ==
    LET orbit == roll_orbit(dish, target + 1) IN
    /\ dish_pc # "panicked"
    /\ dish_pc \in {"loop", "remaining", "done"}
          => /\ roll_i <= target
             /\ history = { [grid |-> orbit[k + 1][2], i |-> k] :
                            k \in 0 .. Cardinality(history) - 1 }
             /\ \A h, k \in history : h.grid = k.grid => h = k
    /\ dish_pc = "loop"
          => Cardinality(history) = roll_i /\ rolled[1] = orbit[roll_i + 1]
    /\ dish_pc = "remaining"
          => \E h \in history :
                LET left == (target - roll_i) % (roll_i - h.i) IN
                /\ Returns(h.grid) = orbit[roll_i + 1]
                /\ Cardinality(history) = roll_i
                /\ remaining <= left
                /\ rolled[1] = orbit[roll_i + left - remaining + 1]
    /\ dish_pc = "done"
          => /\ rolled[1] = orbit[target + 1]
             /\ weight(rolled[1][2]) = weight(orbit[target + 1][2])

\* part2 has ended after the grid first seen after 1 cycle was found again
\* after 4, and 1 further cycle was made of the 5 asked for
C28_Witness ==
    /\ dish_pc = "done"
    /\ roll_i = 4
    /\ target = 5
    /\ remaining = 0
    /\ \E h \in history : h.i = 1 /\ Returns(h.grid) = roll_orbit(dish, 4)[5]
    /\ rolled[1] = roll_orbit(dish, 5)[6]
    /\ rolled[1] # roll_orbit(dish, 4)[5]

-----------------------------------------------------------------------------
(* The workflows of src/src/day19.rs: find_paths_to_acceptance and part2,  *)
(* IteratePathsToAcceptance and part2_iterator.  The ratings run from 1 to *)
(* RatingMax, the 4000 of the source brought down to a number whose fourth *)
(* power can be counted; the arithmetic is that of a build with overflow   *)
(* checks, as the tests are built.                                         *)

RatingMax == 4
MaxWorkflows == 2
MaxRules == 2
MaxCondValue == 2

RatingNames == <<"x", "m", "a", "s">>

\* enum Condition
Unconditional == <<"Unconditional">>
GreaterThan(variable, value) == <<"GreaterThan", variable, value>>
LessThan(variable, value) == <<"LessThan", variable, value>>

\* Condition::invert
invert(self) ==
    CASE self[1] = "Unconditional" -> Unconditional
      [] self[1] = "GreaterThan" -> LessThan(self[2], self[3] + 1)
      [] self[1] = "LessThan" -> GreaterThan(self[2], self[3] - 1)

\* enum Target
Accept == <<"Accept">>
Reject == <<"Reject">>
Target_Workflow(next_workflow) == <<"Workflow", next_workflow>>

\* struct Rule
Rule(cond, to) == [condition |-> cond, target |-> to]

\* struct Item
Item(x, m, a, s) == [x |-> x, m |-> m, a |-> a, s |-> s]

\* Item::get
Item_get(self, variable) == self[variable]

\* Item::set
Item_set(self, variable, value) == [self EXCEPT ![variable] = value]

\* Bounds::new
Bounds_new(lower, upper) ==
    [lower |-> Item(lower, lower, lower, lower), upper |-> Item(upper, upper, upper, upper)]

\* Bounds::update_lower_bound
update_lower_bound(self, variable, value) ==
    IF value > Item_get(self.lower, variable)
    THEN [self EXCEPT !.lower = Item_set(self.lower, variable, value)]
    ELSE self

\* Bounds::update_upper_bound
update_upper_bound(self, variable, value) ==
    IF value < Item_get(self.upper, variable)
    THEN [self EXCEPT !.upper = Item_set(self.upper, variable, value)]
    ELSE self

\* Bounds::update
Bounds_update(self, condition) ==
    CASE condition[1] = "Unconditional" -> self
      [] condition[1] = "GreaterThan" -> update_lower_bound(self, condition[2], condition[3] + 1)
      [] condition[1] = "LessThan" -> update_upper_bound(self, condition[2], condition[3] - 1)

\* lines 394-398 and 409-413: the count of one Bounds; upper - lower is a
\* subtraction of u32
bounds_count(bounds) ==
    IF \E i \in 1 .. 4 : bounds.upper[RatingNames[i]] < bounds.lower[RatingNames[i]]
    THEN Panic
    ELSE Returns((bounds.upper.x - bounds.lower.x + 1) * (bounds.upper.m - bounds.lower.m + 1)
                  * (bounds.upper.a - bounds.lower.a + 1) * (bounds.upper.s - bounds.lower.s + 1))

RECURSIVE find_paths_to_acceptance(_, _, _, _)
RECURSIVE find_paths_rules(_, _, _, _, _)
\* lines 360-378: the loop over the rules of a workflow from rule k on, with
\* the paths found so far and local_partial; the paths it leaves
find_paths_rules(prog, workflow_index, k, paths, local_partial) ==
    LET rules == prog.workflows[workflow_index + 1].rules IN
    IF k > Len(rules) THEN paths
    ELSE LET rule == rules[k]
             path == Append(local_partial, rule.condition)
             paths1 == CASE rule.target[1] = "Accept" -> Append(paths, path)
                         [] rule.target[1] = "Reject" -> paths
                         [] rule.target[1] = "Workflow" ->
                                find_paths_to_acceptance(prog, rule.target[2], paths, path)
         IN find_paths_rules(prog, workflow_index, k + 1, paths1,
                             IF rule.condition # Unconditional
                             THEN Append(local_partial, invert(rule.condition))
                             ELSE local_partial)

\* find_paths_to_acceptance: the paths it leaves in `paths`
find_paths_to_acceptance(prog, workflow_index, paths, partial) ==
    find_paths_rules(prog, workflow_index, 1, paths, partial)

RECURSIVE path_bounds(_, _, _)
\* lines 389-393: the Bounds of a path, from condition k on
path_bounds(path, k, bounds) ==
    IF k > Len(path) THEN bounds
    ELSE path_bounds(path, k + 1, Bounds_update(bounds, path[k]))

RECURSIVE part2_sum(_, _, _)
\* lines 388-400: the loop over the paths from path k on
part2_sum(paths, k, total) ==
    IF k > Len(paths) THEN Returns(total)
    ELSE LET count == bounds_count(path_bounds(paths[k], 1, Bounds_new(1, RatingMax))) IN
         IF count = Panic THEN Panic ELSE part2_sum(paths, k + 1, total + count[2])

\* part2
part2_paths(prog) ==
    part2_sum(find_paths_to_acceptance(prog, prog.entry_point, <<>>, <<>>), 1, 0)

\* IteratePathsToAcceptance::new: the stack
IteratePathsToAcceptance_new(prog) ==
    << [workflow_index |-> prog.entry_point, rule_index |-> 0,
        bounds |-> Bounds_new(1, RatingMax)] >>

\* advance_top that leaves the bounds of the top of the stack as they are
advance_top_NoInvert(stk, rule) ==
    [stk EXCEPT ![Len(stk)].rule_index = @ + 1]

\* lines 318-327: the top of the stack goes to its next rule, its bounds
\* updated with the inverted condition of this one
advance_top(stk, rule) ==
    LET n == Len(stk)
        top == [stk[n] EXCEPT !.rule_index = @ + 1]
    IN [stk EXCEPT ![n] = IF rule.condition # Unconditional
                          THEN [top EXCEPT !.bounds = Bounds_update(@, invert(rule.condition))]
                          ELSE top]

RECURSIVE iter_next(_, _)
\* IteratePathsToAcceptance::next: the stack it leaves and the Option<Bounds>
\* it returns
iter_next(prog, stk) ==
    IF stk = <<>> THEN [stack |-> stk, item |-> None]
    ELSE LET top == stk[Len(stk)]
             workflow == prog.workflows[top.workflow_index + 1]
         IN IF top.rule_index = Len(workflow.rules)
            THEN iter_next(prog, SubSeq(stk, 1, Len(stk) - 1))
            ELSE LET rule == workflow.rules[top.rule_index + 1]
                     bounds == top.bounds
                     stk1 == advance_top(stk, rule)
                 IN CASE rule.target[1] = "Accept" ->
                            [stack |-> stk1, item |-> Some(Bounds_update(bounds, rule.condition))]
                      [] rule.target[1] = "Reject" -> iter_next(prog, stk1)
                      [] rule.target[1] = "Workflow" ->
                            iter_next(prog, Append(stk1,
                                [workflow_index |-> rule.target[2], rule_index |-> 0,
                                 bounds |-> Bounds_update(bounds, rule.condition)]))

\* the conditions of the rules: on two of the ratings, with the values
\* 2 .. MaxCondValue
Conditions ==
    {Unconditional}
        \cup { GreaterThan(v, n) : v \in {"x", "a"}, n \in 2 .. MaxCondValue }
        \cup { LessThan(v, n) : v \in {"x", "a"}, n \in 2 .. MaxCondValue }

\* the rules of workflow i of n: a rule goes to a later workflow only
RulesOf(i, n) ==
    { Rule(c, t) : c \in Conditions,
                   t \in {Accept, Reject} \cup { Target_Workflow(j) : j \in i + 1 .. n - 1 } }

\* the workflows of index i of a program of n workflows
WorkflowsOf(i, n) ==
    UNION { { [rules |-> r] : r \in [1 .. k -> RulesOf(i, n)] } : k \in 1 .. MaxRules }

RECURSIVE WorkflowSeqs(_, _)
\* the workflows of index i .. n - 1 of a program of n workflows
WorkflowSeqs(i, n) ==
    IF i = n THEN {<<>>}
    ELSE LET rest == WorkflowSeqs(i + 1, n) IN
         { <<w>> \o r : w \in WorkflowsOf(i, n), r \in rest }

\* compile_program: the programs of up to max_workflows workflows, "in" the
\* first, every workflow after it the target of a rule
Programs(max_workflows) ==
    UNION { { [workflows |-> w, entry_point |-> 0] :
              w \in { f \in WorkflowSeqs(0, n) :
                      \A j \in 1 .. n - 1 :
                         \E i \in 1 .. j, k \in 1 .. MaxRules :
                            /\ k <= Len(f[i].rules)
                            /\ f[i].rules[k].target = Target_Workflow(j) } } :
            n \in 1 .. max_workflows }

\* lines 433, 456: part2(&input)
Part2Call ==
    /\ flow_pc = "part2"
    /\ part2_total' = Some(part2_paths(program))
    /\ flow_pc' = "part2_iterator"
    /\ UNCHANGED <<program, stack, accepted, iter_total, pathVars, parseVars,
                   intervalVars, almanacVars, beamVars, lensVars, dishVars, pulseVars>>

\* lines 406-408: part2_iterator up to its loop
IteratorNew ==
    /\ flow_pc = "part2_iterator"
    /\ stack' = IteratePathsToAcceptance_new(program)
    /\ accepted' = <<>>
    /\ iter_total' = Some(Returns(0))
    /\ flow_pc' = "next"
    /\ UNCHANGED <<program, part2_total, pathVars, parseVars,
                   intervalVars, almanacVars, beamVars, lensVars, dishVars, pulseVars>>

\* lines 408-415: one call of next() by the loop of part2_iterator, and the
\* body of the loop or its end
IteratorNext ==
    /\ flow_pc = "next"
    /\ LET r == iter_next(program, stack) IN
       /\ stack' = r.stack
       /\ IF r.item = None
          THEN /\ flow_pc' = "done"
               /\ UNCHANGED <<accepted, iter_total>>
          ELSE LET count == bounds_count(r.item[1]) IN
               /\ accepted' = Append(accepted, r.item[1])
               /\ IF count = Panic
                  THEN iter_total' = Some(Panic) /\ flow_pc' = "panicked"
                  ELSE /\ iter_total' = Some(Returns(iter_total[1][2] + count[2]))
                       /\ flow_pc' = "next"
    /\ UNCHANGED <<program, part2_total, pathVars, parseVars,
                   intervalVars, almanacVars, beamVars, lensVars, dishVars, pulseVars>>

InitFlows ==
    /\ program \in Programs(MaxWorkflows)
    /\ stack = <<>> /\ accepted = <<>> /\ iter_total = None /\ part2_total = None
    /\ flow_pc = "part2"
    /\ NoSearch /\ NoParse /\ NoInterval /\ NoAlmanac /\ NoBeams /\ NoLenses /\ NoDish
    /\ NoPulses

NextFlows == Part2Call \/ IteratorNew \/ IteratorNext

SpecFlows == InitFlows /\ [][NextFlows]_vars

\* the paths find_paths_to_acceptance finds in the program
PathsOfProgram == find_paths_to_acceptance(program, program.entry_point, <<>>, <<>>)

\* C21: part2_iterator returns the total of part2: the iterator yields one
\* Bounds for each accepting path that find_paths_to_acceptance finds, with
\* the bounds part2 computes from the conditions of the path, in the same
\* order, and it ends, with None, when its stack is empty.
C21_IteratorAgreesWithPart2 ==
    /\ flow_pc \in {"next", "done", "panicked"}
          => /\ Len(accepted) <= Len(PathsOfProgram)
             /\ \A k \in 1 .. Len(accepted) :
                   accepted[k] = path_bounds(PathsOfProgram[k], 1, Bounds_new(1, RatingMax))
             /\ iter_total[1] = part2_sum(SubSeq(PathsOfProgram, 1, Len(accepted)), 1, 0)
    /\ flow_pc = "done"
          => /\ stack = <<>>
             /\ Len(accepted) = Len(PathsOfProgram)
             /\ iter_total = part2_total
             /\ iter_total[1] # Panic
    /\ flow_pc = "panicked" => iter_total = part2_total /\ part2_total = Some(Panic)

\* the iterator has ended after two paths, the second through a second
\* workflow entered on a condition and bounded by the inverted condition of
\* the rule before it
C21_Witness ==
    /\ flow_pc = "done"
    /\ Len(program.workflows) = 2
    /\ Len(accepted) = 2
    /\ accepted[1] # accepted[2]
    /\ program.workflows[1].rules[1] = Rule(GreaterThan("a", 2), Accept)
    /\ program.workflows[1].rules[2].target = Target_Workflow(1)
    /\ accepted[2].upper.a = 2
    /\ accepted[2].lower.x = 3
    /\ iter_total[1][2] > 0


-----------------------------------------------------------------------------
(* The pulses of src/src/day20.rs: WiringConfiguration::from_iter,         *)
(* Simulator::new, pulse_button and simulate_one_branch, one pulse of the  *)
(* queue per step, called by the test part1_steps and by find_cycle.       *)

StepsRepeats == 10
CycleMax == 1000

\* Line of mod parsing
Line(module_type, label, connections) ==
    [module_type |-> module_type, label |-> label, connections |-> connections]

\* lines 539-543 and 574-578: what parse makes of the input of the tests
ExampleLines ==
    << Line("Broadcaster", "broadcaster", <<"a">>),
       Line("FlipFlop", "a", <<"inv", "con">>),
       Line("Conjunction", "inv", <<"b">>),
       Line("FlipFlop", "b", <<"con">>),
       Line("Conjunction", "con", <<"out">>) >>

RECURSIVE line_connections(_, _)
\* lines 179-181: the pairs pushed to `connections` for a line, from its
\* connection k on
line_connections(line, k) ==
    IF k > Len(line.connections) THEN <<>>
    ELSE << <<line.label, line.connections[k]>> >> \o line_connections(line, k + 1)

RECURSIVE all_connections(_, _)
\* lines 165-189: `connections` after the loop over the lines, from line k on
all_connections(lines, k) ==
    IF k > Len(lines) THEN <<>>
    ELSE line_connections(lines[k], 1) \o all_connections(lines, k + 1)

RECURSIVE line_labels(_, _)
\* lines 187-188: the labels of the modules pushed for the lines, from line k
\* on
line_labels(lines, k) ==
    IF k > Len(lines) THEN <<>> ELSE <<lines[k].label>> \o line_labels(lines, k + 1)

RECURSIVE with_sinks(_, _, _)
\* lines 194-206: the labels of the modules after a Sink is pushed for every
\* outgoing label not in the map, from connection k on
with_sinks(labels, connections, k) ==
    IF k > Len(connections) THEN labels
    ELSE IF \E i \in 1 .. Len(labels) : labels[i] = connections[k][2]
         THEN with_sinks(labels, connections, k + 1)
         ELSE with_sinks(Append(labels, connections[k][2]), connections, k + 1)

\* map[label]
module_index(labels, label) ==
    (CHOOSE i \in 1 .. Len(labels) :
        labels[i] = label /\ \A j \in i + 1 .. Len(labels) : labels[j] # label) - 1

RECURSIVE wired(_, _, _, _, _)
\* lines 208-213: the indices pushed to the outgoing (side = 1) or incoming
\* (side = 2) of module `module_idx`, from connection k on
wired(labels, connections, module_idx, side, k) ==
    IF k > Len(connections) THEN <<>>
    ELSE (IF module_index(labels, connections[k][side]) = module_idx
          THEN <<module_index(labels, connections[k][3 - side])>> ELSE <<>>)
         \o wired(labels, connections, module_idx, side, k + 1)

RECURSIVE wired_modules(_, _, _, _)
\* lines 182-213: the modules, from module_idx on
wired_modules(lines, labels, connections, module_idx) ==
    IF module_idx >= Len(labels) THEN <<>>
    ELSE << [module_type |-> IF module_idx < Len(lines) THEN lines[module_idx + 1].module_type
                             ELSE "Sink",
             incoming |-> wired(labels, connections, module_idx, 2, 1),
             outgoing |-> wired(labels, connections, module_idx, 1, 1)] >>
         \o wired_modules(lines, labels, connections, module_idx + 1)

\* WiringConfiguration::from_iter
from_iter(lines) ==
    LET connections == all_connections(lines, 1)
        labels == with_sinks(line_labels(lines, 1), connections, 1)
        modules == wired_modules(lines, labels, connections, 0)
    IN [modules |-> modules,
        broadcaster_index |-> module_index(labels, "broadcaster"),
        mixer_index |-> IF Len(labels) > Len(lines)
                        THEN Some(modules[Len(labels)].incoming[1]) ELSE None]

\* lines 546, 581
wiring == from_iter(ExampleLines)

\* lines 296-308: how many cells of the memory a module has
memory_cells(module) ==
    CASE module.module_type = "FlipFlop" -> 1
      [] module.module_type = "Conjunction" -> Len(module.incoming)
      [] OTHER -> 0

RECURSIVE memory_map(_)
\* lines 296-308: memory_map[module_idx], and next_address for module_idx = len
memory_map(module_idx) ==
    IF module_idx = 0 THEN 0
    ELSE memory_map(module_idx - 1) + memory_cells(wiring.modules[module_idx])

\* Simulator::new: the memory
Simulator_new ==
    LET next_address == memory_map(Len(wiring.modules)) IN
    SubSeq([k \in 1 .. next_address |-> "Low"], 1, next_address)

\* Pulse::invert
Pulse_invert(self) == IF self = "Low" THEN "High" ELSE "Low"

\* PulseCounter::add_pulse
add_pulse(self, pulse) ==
    IF pulse = "Low" THEN [self EXCEPT !.low = @ + 1] ELSE [self EXCEPT !.high = @ + 1]

\* Add for PulseCounter
PulseCounter_add(self, rhs) == [low |-> self.low + rhs.low, high |-> self.high + rhs.high]

\* conjunction_pulse that sends a low pulse when it remembers one high pulse
conjunction_pulse_AnyHigh(slice) ==
    IF \E k \in 1 .. Len(slice) : slice[k] = "High" THEN "Low" ELSE "High"

\* lines 377-381: the pulse a conjunction sends with these cells of memory
conjunction_pulse(slice) ==
    IF \A k \in 1 .. Len(slice) : slice[k] = "High" THEN "Low" ELSE "High"

\* line 408 and line 566: simulator.memory.iter().all(|&p| p == Pulse::Low)
all_low(mem) == \A k \in 1 .. Len(mem) : mem[k] = "Low"

RECURSIVE pushed(_, _, _, _)
\* lines 390-392: what is pushed to the back of the queue, from outgoing k on
pushed(module, label, new_pulse, k) ==
    IF k > Len(module.outgoing) THEN <<>>
    ELSE << [source |-> label, pulse |-> new_pulse, label |-> module.outgoing[k]] >>
         \o pushed(module, label, new_pulse, k + 1)

\* line 317-318 and lines 326-336: pulse_button up to the loop
PulseButton ==
    /\ sim_pc = "idle"
    /\ IF driver = "find_cycle" THEN presses < CycleMax ELSE presses < 4 * StepsRepeats
    /\ counter' = [low |-> 0, high |-> 0]
    /\ pulses' = << [source |-> wiring.broadcaster_index, pulse |-> "Low",
                     label |-> wiring.broadcaster_index] >>
    /\ pulsed_mixer' = None
    /\ sim_pc' = "running"
    /\ UNCHANGED <<driver, memory, returned, presses, cycle_counter, cycle_result,
                   pathVars, parseVars, intervalVars, almanacVars, beamVars, lensVars,
                   dishVars, flowVars>>

\* lines 338-394: one iteration of `while let Some(..) = queue.pop_front()`
Propagate ==
    /\ sim_pc = "running"
    /\ pulses # <<>>
    /\ LET source == pulses[1].source
           pulse == pulses[1].pulse
           label == pulses[1].label
           module == wiring.modules[label + 1]
           address == memory_map(label)
           pos == CHOOSE k \in 1 .. Len(module.incoming) :
                     /\ module.incoming[k] = source
                     /\ \A j \in 1 .. k - 1 : module.incoming[j] # source
           flips == module.module_type = "FlipFlop" /\ pulse = "Low"
           memory1 ==
               CASE flips -> [memory EXCEPT ![address + 1] = Pulse_invert(@)]
                 [] module.module_type = "Conjunction" ->
                        [memory EXCEPT ![address + pos] = pulse]
                 [] OTHER -> memory
           new_pulse ==
               CASE module.module_type = "Broadcaster" -> Some(pulse)
                 [] flips -> Some(memory1[address + 1])
                 [] module.module_type = "Conjunction" ->
                        Some(conjunction_pulse(
                                SubSeq(memory1, address + 1, address + Len(module.incoming))))
                 [] OTHER -> None
       IN /\ counter' = add_pulse(counter, pulse)
          /\ memory' = memory1
          /\ pulsed_mixer' = IF /\ module.module_type = "Conjunction"
                                /\ Some(label) = wiring.mixer_index
                                /\ pulse = "High"
                             THEN Some(pos - 1) ELSE pulsed_mixer
          /\ pulses' = Tail(pulses) \o
                       (IF new_pulse # None THEN pushed(module, label, new_pulse[1], 1)
                        ELSE <<>>)
    /\ UNCHANGED <<driver, returned, presses, cycle_counter, cycle_result, sim_pc,
                   pathVars, parseVars, intervalVars, almanacVars, beamVars, lensVars,
                   dishVars, flowVars>>

\* line 396: simulate_one_branch returns with the queue empty
Return ==
    /\ sim_pc = "running"
    /\ pulses = <<>>
    /\ returned' = Some(<<counter, pulsed_mixer>>)
    /\ presses' = presses + 1
    /\ sim_pc' = "returned"
    /\ UNCHANGED <<driver, memory, pulses, counter, pulsed_mixer, cycle_counter,
                   cycle_result, pathVars, parseVars, intervalVars, almanacVars,
                   beamVars, lensVars, dishVars, flowVars>>

\* lines 550-565: what the test part1_steps expects of the four presses of a
\* repeat
StepsExpected ==
    << <<[low |-> 4, high |-> 4], Some(1)>>,
       <<[low |-> 4, high |-> 2], None>>,
       <<[low |-> 5, high |-> 3], Some(0)>>,
       <<[low |-> 4, high |-> 2], None>> >>

\* lines 550-566: the assert_eq! after a press of part1_steps, and the
\* assert! after the fourth of a repeat
StepsAssert ==
    /\ sim_pc = "returned"
    /\ driver = "part1_steps"
    /\ sim_pc' = IF /\ returned[1] = StepsExpected[((presses - 1) % 4) + 1]
                    /\ presses % 4 = 0 => all_low(memory)
                 THEN "idle" ELSE "assert_failed"
    /\ UNCHANGED <<driver, memory, pulses, counter, pulsed_mixer, returned, presses,
                   cycle_counter, cycle_result, pathVars, parseVars, intervalVars,
                   almanacVars, beamVars, lensVars, dishVars, flowVars>>

\* lines 407-412: find_cycle after a press, and its return
FindCycleStep ==
    /\ sim_pc = "returned"
    /\ driver = "find_cycle"
    /\ cycle_counter' = PulseCounter_add(cycle_counter, returned[1][1])
    /\ IF all_low(memory)
       THEN cycle_result' = Some(<<presses, cycle_counter'>>) /\ sim_pc' = "done"
       ELSE IF presses = CycleMax
       THEN cycle_result' = Some(<<0, cycle_counter'>>) /\ sim_pc' = "done"
       ELSE UNCHANGED cycle_result /\ sim_pc' = "idle"
    /\ UNCHANGED <<driver, memory, pulses, counter, pulsed_mixer, returned, presses,
                   pathVars, parseVars, intervalVars, almanacVars, beamVars, lensVars,
                   dishVars, flowVars>>

\* lines 547 and 402-404: Simulator::new(&wiring) in part1_steps or in
\* find_cycle
InitPulses ==
    /\ driver \in {"part1_steps", "find_cycle"}
    /\ memory = Simulator_new
    /\ pulses = <<>>
    /\ counter = [low |-> 0, high |-> 0] /\ pulsed_mixer = None /\ returned = None
    /\ presses = 0 /\ cycle_counter = [low |-> 0, high |-> 0] /\ cycle_result = None
    /\ sim_pc = "idle"
    /\ NoSearch /\ NoParse /\ NoInterval /\ NoAlmanac /\ NoBeams /\ NoLenses /\ NoDish
    /\ NoFlows

NextPulses == PulseButton \/ Propagate \/ Return \/ StepsAssert \/ FindCycleStep

SpecPulses == InitPulses /\ [][NextPulses]_vars

\* C22: on the wiring of the tests the presses of the button are periodic
\* with period 4: the presses of a period return (low 4, high 4, Some(1)),
\* (low 4, high 2, None), (low 5, high 3, Some(0)) and (low 4, high 2, None),
\* after every fourth press every cell of the memory is Low, as it was at
\* the start, and find_cycle returns 4 with the counter (low 17, high 11).
C22_PeriodFour ==
    /\ sim_pc # "assert_failed"
    /\ sim_pc \in {"returned", "idle", "done"} /\ presses > 0
          => /\ presses % 4 = 1 => returned[1] = <<[low |-> 4, high |-> 4], Some(1)>>
             /\ presses % 4 = 2 => returned[1] = <<[low |-> 4, high |-> 2], None>>
             /\ presses % 4 = 3 => returned[1] = <<[low |-> 5, high |-> 3], Some(0)>>
             /\ presses % 4 = 0 => returned[1] = <<[low |-> 4, high |-> 2], None>>
             /\ presses % 4 = 0 <=> all_low(memory)
             /\ presses % 4 = 0 => memory = Simulator_new
    /\ driver = "find_cycle" => presses <= 4
    /\ sim_pc = "done"
          => cycle_result = Some(<<4, [low |-> 17, high |-> 11]>>)

\* the eighth press of part1_steps has returned, with the memory all Low
\* again
C22_Witness ==
    /\ driver = "part1_steps" /\ presses = 8 /\ sim_pc = "idle"
    /\ returned = Some(<<[low |-> 4, high |-> 2], None>>)
    /\ all_low(memory) /\ Len(memory) = 5

=============================================================================
